---- MODULE Spec2Model ----
(***************************************************************************)
(* A model of the core of guitar-tab-transcriber: the confidence scorer,   *)
(* the audio/video fusion engine, the fretboard-position resolver, the     *)
(* position optimizer, the tab generator and the data they exchange.       *)
(*                                                                         *)
(* Representation of the Python values:                                    *)
(*  - a note or context dict is a TLA+ function from key strings to        *)
(*    values; `k in d` is k \in DOMAIN d, d.get(k, x) is Get(d, k, x),     *)
(*    d.copy() is d, and d[k] = x is Put(d, k, x);                         *)
(*  - None is the integer sentinel None;                                   *)
(*  - times are integers in milliseconds (1.05 s = 1050).  The inputs are   *)
(*    chosen so that float arithmetic orders their differences as exact    *)
(*    arithmetic does (equal differences are of binary fractions such as   *)
(*    0.875 and 1.125 around 1.0);                                         *)
(*  - confidences, scores and context sub-signals in [0,1] are fixed point *)
(*    integers with One = 1.0; weights are tenths (0.4 = 4).  The inputs   *)
(*    are multiples of 0.01, for which every product below is exact;       *)
(*    floating point rounding is not modelled;                             *)
(*  - a positive frequency f is the integer 1200*log2(f/440), its distance *)
(*    in cents from A4 (110 Hz = -2400, 220 Hz = -1200), so that the cents *)
(*    difference of two frequencies is the difference of their values.     *)
(*    Frequencies of the data model are positive; a missing one reads as 0 *)
(*    Hz in compare_predictions and is tracked by the key's absence.       *)
(***************************************************************************)
EXTENDS Integers, Sequences, FiniteSets, TLC

VARIABLES
    audio_weight,     \* MultimodalFusion.audio_weight (tenths)
    video_weight,     \* MultimodalFusion.video_weight (tenths)
    audio_notes,      \* argument of fuse_predictions
    video_notes,      \* argument of fuse_predictions
    audio_context,    \* argument of fuse_predictions
    video_context,    \* argument of fuse_predictions
    pc,               \* "waiting" (audio not yet processed), "ready", "returned" or "raised"
    matched_pairs,    \* _match_notes_by_time: <<audio index, video index>> pairs
    unmatched_audio,  \* _match_notes_by_time: audio indices, ascending
    unmatched_video,  \* _match_notes_by_time: video indices, ascending
    fused_notes,      \* the list fuse_predictions returns
    mpc,              \* GuitarMapper: "off", "new", or the last operation done
    tuning_arg,       \* argument of GuitarMapper.__init__
    tuning,           \* GuitarMapper.tuning
    fretboard,        \* GuitarMapper.fretboard
    last_position,    \* GuitarMapper.last_position
    find_pool,        \* the frequencies the caller may pass to _find_best_position
    find_arg,         \* argument of the last _find_best_position call
    best_match,       \* what that call returned
    frequencies,      \* argument of map_to_guitar
    confidences,      \* argument of map_to_guitar
    times,            \* argument of map_to_guitar
    onset_times,      \* argument of map_to_guitar
    mapped_notes,     \* the list map_to_guitar returns
    position_before,  \* last_position when the last call on the resolver began
    opc,              \* PositionOptimizer: "off", "awaiting", "ready",
                      \* "returned" or "raised"
    opt_input,        \* argument of optimize_positions, as it was passed
    optimized,        \* the list optimize_positions returns
    tpc,              \* TabGenerator: "off", "ready", "returned" or "raised"
    chars_per_second, \* TabGenerator.chars_per_second
    tab_notes,        \* argument of generate
    tab,              \* what generate returns
    gpc,              \* group_into_chords: "off", "ready" or "returned"
    chord_notes,      \* argument notes of group_into_chords
    time_window_arg,  \* argument time_window of group_into_chords (ms)
    grouped_events    \* the list group_into_chords returns

fusion_vars == <<audio_weight, video_weight, audio_notes, video_notes,
                 audio_context, video_context, pc, matched_pairs,
                 unmatched_audio, unmatched_video, fused_notes>>

mapper_vars == <<mpc, tuning_arg, tuning, fretboard, last_position, find_pool,
                 find_arg,
                 best_match,
                 frequencies, confidences, times, onset_times, mapped_notes,
                 position_before>>

optimizer_vars == <<opc, opt_input, optimized>>

tab_vars == <<tpc, chars_per_second, tab_notes, tab>>

chord_vars == <<gpc, chord_notes, time_window_arg, grouped_events>>

vars == <<fusion_vars, mapper_vars, optimizer_vars, tab_vars, chord_vars>>




----------------------------------------------------------------------------
(* Python values *)

None == -1000

One == 100000

Get(d, k, default) == IF k \in DOMAIN d THEN d[k] ELSE default

Put(d, k, x) == (k :> x) @@ d

EmptyDict == [k \in {} |-> None]

Abs(x) == IF x < 0 THEN -x ELSE x

Min2(x, y) == IF x < y THEN x ELSE y

\* x * w for a weight w in tenths
Times(x, w) == (x * w) \div 10

RECURSIVE Sum(_)
Sum(s) == IF s = <<>> THEN 0 ELSE Head(s) + Sum(Tail(s))

\* The element of a one-element set. Only({e : x \in {v}}) is e with x bound
\* to the value of v, computed once, as a Python assignment x = v binds it
Only(S) == CHOOSE r \in S : TRUE

----------------------------------------------------------------------------
(* config/guitar_config.py *)

STANDARD_TUNING ==
    << <<"E", 2>>, <<"A", 2>>, <<"D", 3>>, <<"G", 3>>, <<"B", 3>>, <<"E", 4>> >>

NUM_FRETS == 22

NUM_STRINGS == 6

\* cents
PITCH_TOLERANCE == 50

\* 0.5, in halves
FRET_PENALTY_WEIGHT == 1

----------------------------------------------------------------------------
(* src/fusion/confidence_scorer.py *)

\* self.weights, in tenths
weights ==
    [audio |-> [pitch_confidence |-> 4, onset_clarity |-> 3,
                frequency_stability |-> 3],
     video |-> [hand_detection |-> 3, finger_mapping |-> 3,
                picking_detection |-> 2, calibration_quality |-> 2]]

\* 1.0 / (1.0 + variance / 10.0), variance an integer
Stability(variance) == (One * 10) \div (10 + variance)

\* The list `scores` of score_audio_prediction
AudioScores(audio_note, context) ==
    (IF "confidence" \in DOMAIN audio_note
       THEN <<Times(audio_note["confidence"], weights.audio.pitch_confidence)>>
       ELSE <<>>)
    \o (IF "onset_strength" \in DOMAIN context
          \* min(1.0, onset_strength / 10.0): onset_strength is kept in
          \* fixed point with One = 1.0
          THEN <<Times(Min2(One, context["onset_strength"] \div 10),
                       weights.audio.onset_clarity)>>
          ELSE <<>>)
    \o (IF "frequency_variance" \in DOMAIN context
          THEN <<Times(Stability(context["frequency_variance"]),
                       weights.audio.frequency_stability)>>
          ELSE <<>>)

\* The observation's own confidence, whatever the context
RawAudioConfidence(audio_note, context) == Get(audio_note, "confidence", One \div 2)

score_audio_prediction(audio_note, context) ==
    LET scores == AudioScores(audio_note, context)
    IN  IF scores = <<>>
          THEN Get(audio_note, "confidence", One \div 2)
          ELSE Sum(scores)

\* The list `scores` of score_video_prediction
VideoScores(video_note, context) ==
    (IF "confidence" \in DOMAIN video_note
       THEN <<Times(video_note["confidence"], weights.video.hand_detection)>>
       ELSE <<>>)
    \o (IF "position_clarity" \in DOMAIN context
          THEN <<Times(context["position_clarity"], weights.video.finger_mapping)>>
          ELSE <<>>)
    \o (IF "picking_detected" \in DOMAIN context
          THEN <<Times(IF context["picking_detected"] THEN One ELSE Times(One, 3),
                       weights.video.picking_detection)>>
          ELSE <<>>)
    \o (IF "calibration_quality" \in DOMAIN context
          THEN <<Times(context["calibration_quality"],
                       weights.video.calibration_quality)>>
          ELSE <<>>)

\* The score counted for a played note only
ScorePlayedOnly(video_note, context) ==
    IF Get(video_note, "played", FALSE)
      THEN Sum(VideoScores(video_note, context))
      ELSE 0

score_video_prediction(video_note, context) ==
    LET scores == VideoScores(video_note, context)
    IN  IF scores = <<>>
          THEN Get(video_note, "confidence", Times(One, 6))
          ELSE Sum(scores)

note_offsets ==
    [n \in {"C", "C#", "D", "D#", "E", "F", "F#", "G", "G#", "A", "A#", "B"} |->
        CASE n = "C" -> -9 [] n = "C#" -> -8 [] n = "D" -> -7 [] n = "D#" -> -6
          [] n = "E" -> -5 [] n = "F" -> -4 [] n = "F#" -> -3 [] n = "G" -> -2
          [] n = "G#" -> -1 [] n = "A" -> 0 [] n = "A#" -> 1 [] n = "B" -> 2]

\* An exception leaving a function
Raise(e) == [raise |-> e]

Raised(r) == "raise" \in DOMAIN r

\* _calculate_frequency_from_position: [hz0 |-> TRUE] for the returned 0,
\* else the frequency a4_freq * 2 ** (semitones_from_a4 / 12) in cents from A4
\* (strings are indexed from 0; a negative index counts from the end)
_calculate_frequency_from_position(string, fret) ==
    IF string = None THEN Raise("TypeError")
    ELSE IF string >= Len(STANDARD_TUNING) THEN [hz0 |-> TRUE]
    ELSE IF string < -Len(STANDARD_TUNING) THEN Raise("IndexError")
    ELSE IF fret = None THEN Raise("TypeError")
    ELSE LET idx == IF string < 0 THEN string + Len(STANDARD_TUNING) ELSE string
             note == STANDARD_TUNING[idx + 1][1]
             octave == STANDARD_TUNING[idx + 1][2]
             semitones_from_a4 == note_offsets[note] + (octave - 4) * 12 + fret
         IN  [hz0 |-> FALSE, cents |-> 100 * semitones_from_a4]

AgreementWithoutSemitone(string_match, fret_match, freq_diff_cents) ==
    IF string_match /\ fret_match THEN 10
    ELSE IF string_match THEN 5
    ELSE 0

\* agreement, in tenths
Agreement(string_match, fret_match, freq_diff_cents) ==
    IF string_match /\ fret_match THEN 10
    ELSE IF string_match THEN 5
    ELSE IF freq_diff_cents < 100 THEN 7
    ELSE 0

compare_predictions(audio_note, video_note) ==
    LET string_match == Get(audio_note, "string", None) = Get(video_note, "string", None)
        fret_match == Get(audio_note, "fret", None) = Get(video_note, "fret", None)
        video_freq == _calculate_frequency_from_position(
                          Get(video_note, "string", 0), Get(video_note, "fret", 0))
    IN  IF Raised(video_freq) THEN video_freq
        ELSE LET freq_diff_cents ==
                     IF "frequency" \in DOMAIN audio_note /\ ~video_freq.hz0
                       THEN Abs(audio_note["frequency"] - video_freq.cents)
                       ELSE 999
             IN  [string_match |-> string_match,
                  fret_match |-> fret_match,
                  frequency_diff_cents |-> freq_diff_cents,
                  agreement |-> Agreement(string_match, fret_match, freq_diff_cents)]

----------------------------------------------------------------------------
(* src/fusion/multimodal_fusion.py *)

time_tolerance == 150

\* video_note.get('time', video_note.get('timestamp', 0))
VideoTime(video_note) == Get(video_note, "time", Get(video_note, "timestamp", 0))

\* The test of line 122; min_time_diff is float('inf') while no audio note
\* has been kept (best_audio_idx = 0 stands for Python's None)
CloserNoMinimum(time_diff, best_audio_idx, min_time_diff) ==
    time_diff < time_tolerance

CloserInclusive(time_diff, best_audio_idx, min_time_diff) ==
    /\ time_diff <= time_tolerance
    /\ (best_audio_idx = 0 \/ time_diff < min_time_diff)

Closer(time_diff, best_audio_idx, min_time_diff) ==
    /\ time_diff < time_tolerance
    /\ (best_audio_idx = 0 \/ time_diff < min_time_diff)

\* `if a_idx in used_audio: continue`
SkipNever(a_idx, used_audio) == FALSE

Skip(a_idx, used_audio) == a_idx \in used_audio

\* The inner loop of _match_notes_by_time from audio index a_idx on: the final
\* best_audio_idx (0 for None)
RECURSIVE ScanAudio(_, _, _, _, _, _)
ScanAudio(audio, video_time, used_audio, a_idx, best_audio_idx, min_time_diff) ==
    IF a_idx > Len(audio) THEN best_audio_idx
    ELSE IF Skip(a_idx, used_audio)
      THEN ScanAudio(audio, video_time, used_audio, a_idx + 1,
                     best_audio_idx, min_time_diff)
    ELSE LET audio_time == Get(audio[a_idx], "time", 0)
             time_diff == Abs(audio_time - video_time)
         IN  IF Closer(time_diff, best_audio_idx, min_time_diff)
               THEN ScanAudio(audio, video_time, used_audio, a_idx + 1,
                              a_idx, time_diff)
               ELSE ScanAudio(audio, video_time, used_audio, a_idx + 1,
                              best_audio_idx, min_time_diff)

\* The outer loop of _match_notes_by_time from video index v_idx on
RECURSIVE MatchFrom(_, _, _, _, _, _)
MatchFrom(audio, video, v_idx, pairs, used_audio, used_video) ==
    IF v_idx > Len(video)
      THEN [matched_pairs |-> pairs, used_audio |-> used_audio,
            used_video |-> used_video]
      ELSE Only({ IF best_audio_idx # 0
                    THEN MatchFrom(audio, video, v_idx + 1,
                                   Append(pairs, <<best_audio_idx, v_idx>>),
                                   used_audio \cup {best_audio_idx},
                                   used_video \cup {v_idx})
                    ELSE MatchFrom(audio, video, v_idx + 1, pairs, used_audio,
                                   used_video)
                  : best_audio_idx \in
                      {ScanAudio(audio, VideoTime(video[v_idx]), used_audio,
                                 1, 0, 0)} })

\* [i for i in 1..n if i not in used], ascending
RECURSIVE Unused(_, _, _)
Unused(i, n, used) ==
    IF i > n THEN <<>>
    ELSE (IF i \in used THEN <<>> ELSE <<i>>) \o Unused(i + 1, n, used)

\* Notes are kept by their index in the input list (the object the Python
\* tuple or list refers to)
_match_notes_by_time(audio, video) ==
    Only({ [matched_pairs |-> m.matched_pairs,
            unmatched_audio |-> Unused(1, Len(audio), m.used_audio),
            unmatched_video |-> Unused(1, Len(video), m.used_video)]
           : m \in {MatchFrom(audio, video, 1, <<>>, {}, {})} })

\* The optional keys both merge and the resolvers copy
WithDuration(note, audio_note) ==
    IF "duration" \in DOMAIN audio_note
      THEN Put(note, "duration", audio_note["duration"])
      ELSE note

_merge_agreeing_notes(audio_note, video_note, audio_conf, video_conf, agreement) ==
    LET total_weight == Times(audio_conf, audio_weight) + Times(video_conf, video_weight)
        fused_note ==
            [time |-> Get(video_note, "time",
                          Get(video_note, "timestamp", Get(audio_note, "time", 0))),
             string |-> Get(video_note, "string", Get(audio_note, "string", None)),
             fret |-> Get(video_note, "fret", Get(audio_note, "fret", None)),
             frequency |-> Get(audio_note, "frequency", None),
             confidence |-> Times(total_weight, agreement),
             source |-> "fused",
             audio_confidence |-> audio_conf,
             video_confidence |-> video_conf,
             agreement |-> agreement]
        with_duration == WithDuration(fused_note, audio_note)
        with_finger == IF "finger" \in DOMAIN video_note
                         THEN Put(with_duration, "finger", video_note["finger"])
                         ELSE with_duration
    IN  IF Get(video_note, "strumming", FALSE)
          THEN Put(with_finger, "strumming", TRUE)
          ELSE with_finger

\* The time both resolvers give their note
ResolvedTime(audio_note, video_note) ==
    Get(audio_note, "time", Get(video_note, "time", Get(video_note, "timestamp", 0)))

ResolveOctaveNoBoost(audio_note, video_note, audio_conf, video_conf) ==
    WithDuration(
        Put(Put(Put(Put(Put(video_note,
            "time", ResolvedTime(audio_note, video_note)),
            "confidence", Times(video_conf, video_weight)),
            "source", "octave_corrected"),
            "audio_frequency_raw", Get(audio_note, "frequency", None)),
            "correction", "octave_error_fixed"),
        audio_note)

_resolve_octave_error(audio_note, video_note, audio_conf, video_conf) ==
    WithDuration(
        Put(Put(Put(Put(Put(video_note,
            "time", ResolvedTime(audio_note, video_note)),
            "confidence", Times(Times(video_conf, video_weight), 12)),
            "source", "octave_corrected"),
            "audio_frequency_raw", Get(audio_note, "frequency", None)),
            "correction", "octave_error_fixed"),
        audio_note)

\* The audio note kept where it is, the video position attached as alternate
KeepAudioPosition(audio_note, video_note, audio_conf, video_conf) ==
    Put(Put(audio_note, "source", "position_corrected"),
        "video_position",
        [string |-> Get(video_note, "string", None),
         fret |-> Get(video_note, "fret", None)])

_resolve_position_conflict(audio_note, video_note, audio_conf, video_conf) ==
    WithDuration(
        Put(Put(Put(Put(Put(video_note,
            "time", ResolvedTime(audio_note, video_note)),
            "frequency", Get(audio_note, "frequency", None)),
            "confidence", Times(audio_conf, audio_weight)
                          + Times(video_conf, video_weight)),
            "source", "position_corrected"),
            "alternate_fingering", TRUE),
        audio_note)

\* float64: the confidences are numpy scalars, whose 0.0 / 0.0 is nan (and
\* nan > 0.6 is False); Python floats raise ZeroDivisionError
_weighted_fusion(audio_note, video_note, audio_conf, video_conf, float64) ==
    LET total_conf == Times(audio_conf, audio_weight) + Times(video_conf, video_weight)
        \* video_norm > 0.6
        video_majority == /\ total_conf # 0
                          /\ Times(video_conf, video_weight) * 10 > total_conf * 6
        note == IF video_majority
                  THEN Put(video_note, "source", "video_weighted")
                  ELSE Put(Put(audio_note, "source", "audio_weighted"),
                           "video_position",
                           [string |-> Get(video_note, "string", None),
                            fret |-> Get(video_note, "fret", None)])
    IN  IF total_conf = 0 /\ ~float64 THEN Raise("ZeroDivisionError")
        ELSE Put(Put(Put(Put(note,
                 "confidence", Times(total_conf, 8)),
                 "audio_confidence", audio_conf),
                 "video_confidence", video_conf),
                 "conflict_resolved", TRUE)

\* Case 4 without the two priority branches: always the weighted vote
AlwaysWeighted(audio_note, video_note, audio_conf, video_conf, float64) ==
    _weighted_fusion(audio_note, video_note, audio_conf, video_conf, float64)

\* Case 4 of _fuse_note_pair
Disagreement(audio_note, video_note, audio_conf, video_conf, float64) ==
    IF video_conf * 10 > audio_conf * 15
      THEN Put(Put(video_note, "confidence", Times(video_conf, video_weight)),
               "source", "video_priority")
    ELSE IF audio_conf * 10 > video_conf * 15
      THEN LET note == Put(Put(audio_note,
                           "confidence", Times(audio_conf, audio_weight)),
                           "source", "audio_priority")
           IN  IF "string" \in DOMAIN video_note /\ "fret" \in DOMAIN video_note
                 THEN Put(Put(note, "string_video", video_note["string"]),
                          "fret_video", video_note["fret"])
                 ELSE note
    ELSE _weighted_fusion(audio_note, video_note, audio_conf, video_conf, float64)

\* _fuse_note_pair with the octave test ahead of the test of exact agreement
OctaveFirst(audio_note, video_note, a_context, v_context, float64) ==
    LET audio_conf == score_audio_prediction(audio_note, a_context)
        video_conf == score_video_prediction(video_note, v_context)
        comparison == compare_predictions(audio_note, video_note)
    IN  IF Raised(comparison) THEN comparison
        ELSE IF /\ comparison.frequency_diff_cents > 1100
                /\ comparison.frequency_diff_cents < 1300
          THEN _resolve_octave_error(audio_note, video_note, audio_conf, video_conf)
        ELSE IF comparison.string_match /\ comparison.fret_match
          THEN _merge_agreeing_notes(audio_note, video_note, audio_conf,
                                     video_conf, 10)
        ELSE IF comparison.frequency_diff_cents < 50
          THEN _resolve_position_conflict(audio_note, video_note, audio_conf,
                                          video_conf)
        ELSE IF comparison.agreement < 5
          THEN Disagreement(audio_note, video_note, audio_conf, video_conf, float64)
        ELSE _merge_agreeing_notes(audio_note, video_note, audio_conf, video_conf,
                                   comparison.agreement)

\* The note _fuse_note_pair returns, or the exception that leaves it
_fuse_note_pair(audio_note, video_note, a_context, v_context, float64) ==
    LET audio_conf == score_audio_prediction(audio_note, a_context)
        video_conf == score_video_prediction(video_note, v_context)
        comparison == compare_predictions(audio_note, video_note)
    IN  IF Raised(comparison) THEN comparison
        ELSE IF comparison.string_match /\ comparison.fret_match
          THEN _merge_agreeing_notes(audio_note, video_note, audio_conf,
                                     video_conf, 10)
        ELSE IF /\ comparison.frequency_diff_cents > 1100
                /\ comparison.frequency_diff_cents < 1300
          THEN _resolve_octave_error(audio_note, video_note, audio_conf, video_conf)
        ELSE IF comparison.frequency_diff_cents < 50
          THEN _resolve_position_conflict(audio_note, video_note, audio_conf,
                                          video_conf)
        ELSE IF comparison.agreement < 5
          THEN Disagreement(audio_note, video_note, audio_conf, video_conf, float64)
        ELSE _merge_agreeing_notes(audio_note, video_note, audio_conf, video_conf,
                                   comparison.agreement)

\* An output note with the input notes it was made of (0: none), which the
\* claims need and the code does not keep
Out(note, a_idx, v_idx) == [note |-> note, a |-> a_idx, v |-> v_idx]

\* The loop over matched_pairs from pair i on, appended to fused: the list, or
\* the exception if a pair raises
RECURSIVE FusePairs(_, _, _, _, _, _, _, _)
FusePairs(audio, video, a_context, v_context, pairs, i, fused, float64) ==
    IF i > Len(pairs) THEN [raised |-> FALSE, notes |-> fused]
    \* `if fused_note:` holds of every dict returned: none is empty
    ELSE Only({ IF Raised(fused_note)
                  THEN [raised |-> TRUE, error |-> fused_note.raise]
                  ELSE FusePairs(audio, video, a_context, v_context, pairs, i + 1,
                                 Append(fused, Out(fused_note, pairs[i][1],
                                                   pairs[i][2])),
                                 float64)
                : fused_note \in
                    {_fuse_note_pair(audio[pairs[i][1]], video[pairs[i][2]],
                                     a_context, v_context, float64)} })

\* `if audio_conf > 0.5`
IncludeAudio(audio_conf, audio_note) == audio_conf * 10 > One * 5

RECURSIVE FuseUnmatchedAudio(_, _, _, _, _)
FuseUnmatchedAudio(audio, a_context, unmatched, i, fused) ==
    IF i > Len(unmatched) THEN fused
    ELSE LET audio_note == audio[unmatched[i]]
             audio_conf == score_audio_prediction(audio_note, a_context)
             note == Put(Put(audio_note, "source", "audio_only"),
                         "confidence", Times(audio_conf, audio_weight))
         IN  FuseUnmatchedAudio(audio, a_context, unmatched, i + 1,
                 IF IncludeAudio(audio_conf, audio_note)
                   THEN Append(fused, Out(note, unmatched[i], 0))
                   ELSE fused)

IncludeVideoUnplayed(video_conf, video_note) == video_conf * 10 > One * 4

\* `if video_conf > 0.4 and video_note.get('played', False)`
IncludeVideo(video_conf, video_note) ==
    /\ video_conf * 10 > One * 4
    /\ Get(video_note, "played", FALSE)

RECURSIVE FuseUnmatchedVideo(_, _, _, _, _)
FuseUnmatchedVideo(video, v_context, unmatched, i, fused) ==
    IF i > Len(unmatched) THEN fused
    ELSE LET video_note == video[unmatched[i]]
             video_conf == score_video_prediction(video_note, v_context)
             note == Put(Put(video_note, "source", "video_only"),
                         "confidence", Times(video_conf, video_weight))
         IN  FuseUnmatchedVideo(video, v_context, unmatched, i + 1,
                 IF IncludeVideo(video_conf, video_note)
                   THEN Append(fused, Out(note, 0, unmatched[i]))
                   ELSE fused)

\* key=lambda n: n.get('time', 0)
SortKey(n) == Get(n.note, "time", 0)

\* s with x put after the elements whose key is not larger
RECURSIVE InsertByTime(_, _)
InsertByTime(s, x) ==
    IF s = <<>> THEN <<x>>
    ELSE IF SortKey(Head(s)) <= SortKey(x)
      THEN <<Head(s)>> \o InsertByTime(Tail(s), x)
      ELSE <<x>> \o s

\* list.sort: stable, ascending by the key
RECURSIVE SortByTime(_)
SortByTime(s) ==
    IF s = <<>> THEN <<>>
    ELSE Only({ InsertByTime(sorted, s[Len(s)])
                : sorted \in {SortByTime(SubSeq(s, 1, Len(s) - 1))} })

\* What fuse_predictions returns on the given lists: the sorted notes, or
\* the exception raised in a matched pair
fuse_predictions(audio, video, a_context, v_context, float64) ==
    Only({ Only({ IF paired.raised
                    THEN paired
                    ELSE [raised |-> FALSE,
                          notes |-> SortByTime(
                            FuseUnmatchedVideo(video, v_context,
                              m.unmatched_video, 1,
                              FuseUnmatchedAudio(audio, a_context,
                                m.unmatched_audio, 1, paired.notes)))]
                  : paired \in {FusePairs(audio, video, a_context, v_context,
                                          m.matched_pairs, 1, <<>>, float64)} })
           : m \in {_match_notes_by_time(audio, video)} })

----------------------------------------------------------------------------
(* src/transcription/guitar_mapper.py *)

\* None where a dict may stand (last_position, best_match): the code only
\* tests its truth, and no dict it makes is empty
NoPosition == EmptyDict

\* float('inf'), above every finite score
Infinity == 1000000

\* The argument `tuning` of __init__: None ([none |-> TRUE]) or a list
\* ([list |-> l]).  `tuning or STANDARD_TUNING`: None and the empty list are
\* both false
TuningOrStandard(arg) ==
    IF "none" \in DOMAIN arg \/ arg.list = <<>> THEN STANDARD_TUNING ELSE arg.list

\* _note_to_freq, in cents from A4
_note_to_freq(note, octave) == 100 * (note_offsets[note] + (octave - 4) * 12)

\* self.fretboard: per string (index 0 first), the cells of frets 0..NUM_FRETS
_build_fretboard(tuning_) ==
    [string_idx \in 1..Len(tuning_) |->
       [f \in 1..(NUM_FRETS + 1) |->
          [string |-> string_idx - 1,
           fret |-> f - 1,
           frequency |-> _note_to_freq(tuning_[string_idx][1], tuning_[string_idx][2])
                           + 100 * (f - 1)]]]

\* test_freq < 80 or test_freq > 1200 (Hz): 80 Hz is -2951.3 cents from A4
\* and 1200 Hz is 1736.9
OutsideGuitarRange(test_freq) == test_freq < -2951 \/ test_freq > 1736

\* frequency > 300 (Hz): 300 Hz is -663.05 cents from A4
Above300(frequency) == frequency > -664

ToleranceIgnored(cents_diff) == FALSE

\* cents_diff > PITCH_TOLERANCE
BeyondTolerance(cents_diff) == cents_diff > PITCH_TOLERANCE

\* _calculate_position_score, in halves (score 8.5 is 17).  The table's
\* frequencies are positive, so the first test never holds
_calculate_position_score(note_info, frequency, last) ==
    LET cents_diff == Abs(frequency - note_info.frequency)
        fret_penalty == note_info.fret * FRET_PENALTY_WEIGHT
        string_preference ==
            IF Above300(frequency) THEN (5 - note_info.string) * 2
            ELSE note_info.string * 2
        position_change_penalty ==
            IF last # NoPosition
              THEN 2 * (Abs(note_info.string - last.string) * 3)
                   + Abs(note_info.fret - last.fret)
              ELSE 0
    IN  IF BeyondTolerance(cents_diff) THEN Infinity
        ELSE 2 * cents_diff + fret_penalty + 2 * string_preference
             + position_change_penalty

OriginalOnly(frequency) == <<frequency, frequency, frequency>>

\* freq_candidates: the frequency, one octave down, one octave up
freq_candidates(frequency) == <<frequency, frequency - 1200, frequency + 1200>>

\* The position of the loops of _find_best_position when they test cell
\* <<candidate, string, fret>>
LoopOrder(tuning_, t) ==
    ((t[1] - 1) * Len(tuning_) + (t[2] - 1)) * (NUM_FRETS + 1) + (t[3] - 1)

\* The cells the loops of _find_best_position score below infinity, each as
\* <<score, position in the loops, candidate frequency, cell>>
FiniteScores(tuning_, last, frequency) ==
    LET cells == _build_fretboard(tuning_)
        candidates == freq_candidates(frequency)
    IN  { x \in { << _calculate_position_score(cells[t[2]][t[3]],
                                                candidates[t[1]], last),
                     LoopOrder(tuning_, t),
                     candidates[t[1]],
                     cells[t[2]][t[3]] >>
                   : t \in {u \in (1..3) \X (1..Len(tuning_)) \X (1..(NUM_FRETS + 1)) :
                              ~OutsideGuitarRange(candidates[u[1]])} }
            : x[1] < Infinity }

\* _find_best_position: the returned best_match and the new last_position.
\* The loops keep the first cell, in their order, of the least score below
\* infinity (`score < best_score` is strict)
_find_best_position(tuning_, last, frequency) ==
    Only({ IF finite = {}
             THEN [best_match |-> NoPosition, last_position |-> last]
             ELSE LET best == CHOOSE x \in finite : \A y \in finite :
                                  x[1] < y[1] \/ (x[1] = y[1] /\ x[2] <= y[2])
                      match == [string |-> best[4].string,
                                fret |-> best[4].fret,
                                frequency |-> best[4].frequency,
                                detected_freq |-> frequency,
                                corrected_freq |-> best[3]]
                  IN  [best_match |-> match, last_position |-> match]
           : finite \in {FiniteScores(tuning_, last, frequency)} })

TableAfterAliased(table, match) ==
    IF match = NoPosition THEN table
    ELSE [table EXCEPT ![match.string + 1][match.fret + 1] = match]

\* self.fretboard after a resolution: `best_match = note_info.copy()`, so the
\* keys set on best_match are not set on the table's cell
TableAfter(table, match) == table

KeepPosition(last) == last

\* `self.last_position = None  # Reset position tracking`
ResetPosition(last) == NoPosition

\* np.argmax(window_confs) over the samples of mask: the first of the largest
ArgMax(confs, mask) ==
    CHOOSE j \in mask : \A k \in mask :
        confs[j] > confs[k] \/ (confs[j] = confs[k] /\ j <= k)

\* The loop of map_to_guitar from onset i on: the notes and last_position
RECURSIVE MapOnsets(_, _, _, _, _, _, _, _)
MapOnsets(tuning_, freqs, confs, times_, onsets, i, notes, last) ==
    IF i > Len(onsets) THEN [notes |-> notes, last_position |-> last]
    ELSE LET onset_time == onsets[i]
             next_onset == IF i < Len(onsets) THEN onsets[i + 1]
                           ELSE IF Len(times_) > 0 THEN times_[Len(times_)]
                           ELSE onset_time + 1000
             mask == {j \in DOMAIN times_ :
                        times_[j] >= onset_time /\ times_[j] < next_onset}
         IN  IF mask = {}
               THEN MapOnsets(tuning_, freqs, confs, times_, onsets, i + 1,
                              notes, last)
               ELSE Only({
                      IF r.best_match # NoPosition /\ r.best_match.fret <= NUM_FRETS
                        THEN MapOnsets(tuning_, freqs, confs, times_, onsets, i + 1,
                                 Append(notes,
                                        [time |-> onset_time,
                                         duration |-> next_onset - onset_time,
                                         string |-> r.best_match.string,
                                         fret |-> r.best_match.fret,
                                         frequency |-> freqs[ArgMax(confs, mask)],
                                         confidence |-> confs[ArgMax(confs, mask)]]),
                                 r.last_position)
                        ELSE MapOnsets(tuning_, freqs, confs, times_, onsets, i + 1,
                                       notes, r.last_position)
                      : r \in {_find_best_position(tuning_, last,
                                                    freqs[ArgMax(confs, mask)])} })

\* map_to_guitar: the returned notes and the last_position it leaves
map_to_guitar(tuning_, last, freqs, confs, times_, onsets) ==
    MapOnsets(tuning_, freqs, confs, times_, onsets, 1, <<>>, ResetPosition(last))

----------------------------------------------------------------------------
(* src/fusion/position_optimizer.py *)

max_fret_stretch == 4

max_string_jump == 3

\* [score |-> max(0, score)], or the TypeError of a subtraction on None
_playability_score(string1, fret1, string2, fret2) ==
    IF fret1 = None \/ fret2 = None \/ string1 = None \/ string2 = None
      THEN Raise("TypeError")
      ELSE LET fret_jump == Abs(fret1 - fret2)
               string_jump == Abs(string1 - string2)
               score == 100
                        - (IF fret_jump > max_fret_stretch
                             THEN (fret_jump - max_fret_stretch) * 10 ELSE 0)
                        - (IF string_jump > max_string_jump
                             THEN (string_jump - max_string_jump) * 5 ELSE 0)
                        + (IF fret_jump <= 2 /\ string_jump <= 1 THEN 20 ELSE 0)
           IN  [score |-> IF score < 0 THEN 0 ELSE score]

AnyBetter(video_score, current_score) == video_score > current_score

\* `video_score > current_score * 1.2`
MorePlayable(video_score, current_score) == video_score * 10 > current_score * 12

\* The note as the call leaves it (it is changed in place), or the exception.
\* last is NoPosition for None, else the dict of the note before
_optimize_single_position(note, last) ==
    IF "video_position" \notin DOMAIN note /\ "alternate_fingering" \notin DOMAIN note
      THEN note
    ELSE IF "video_position" \in DOMAIN note /\ last # NoPosition
      THEN LET video_pos == note["video_position"]
               current_score == _playability_score(Get(note, "string", None),
                                                   Get(note, "fret", None),
                                                   last.string, last.fret)
               video_score == _playability_score(video_pos.string, video_pos.fret,
                                                 last.string, last.fret)
           IN  IF Raised(current_score) THEN current_score
               ELSE IF Raised(video_score) THEN video_score
               ELSE IF MorePlayable(video_score.score, current_score.score)
                 THEN Put(Put(Put(note, "string", video_pos.string),
                                        "fret", video_pos.fret),
                                        "position_optimized", TRUE)
                 ELSE note
    ELSE note

KeepNone(note) == FALSE

\* `note.get('source') in ['fused', 'video_only'] and
\*  note.get('confidence', 0) > 0.8`
KeepAsIs(note) ==
    /\ "source" \in DOMAIN note
    /\ note["source"] \in {"fused", "video_only"}
    /\ Get(note, "confidence", 0) * 10 > One * 8

PositionOf(note) ==
    [string |-> Get(note, "string", None), fret |-> Get(note, "fret", None)]

\* The loop of optimize_positions from note i on.  notes are the objects of
\* the argument list, changed in place; optimized is the list being built
RECURSIVE OptimizeFrom(_, _, _, _)
OptimizeFrom(notes, i, optimized_, last) ==
    IF i > Len(notes)
      THEN [raised |-> FALSE, notes |-> notes, optimized |-> optimized_]
    ELSE IF KeepAsIs(notes[i])
      THEN OptimizeFrom(notes, i + 1, Append(optimized_, notes[i]),
                        PositionOf(notes[i]))
    ELSE Only({ IF Raised(optimized_note)
                  THEN [raised |-> TRUE, notes |-> notes,
                        optimized |-> optimized_]
                  ELSE OptimizeFrom([notes EXCEPT ![i] = optimized_note], i + 1,
                                    Append(optimized_, optimized_note),
                                    PositionOf(optimized_note))
                : optimized_note \in
                    {_optimize_single_position(notes[i], last)} })

\* `if not notes: return notes` is the loop on no note
optimize_positions(notes) == OptimizeFrom(notes, 1, <<>>, NoPosition)

\* `abs(note_time - current_time) < time_window`
InWindowInclusive(note_time, current_time, time_window) ==
    Abs(note_time - current_time) <= time_window

InWindow(note_time, current_time, time_window) ==
    Abs(note_time - current_time) < time_window

\* The event made of current_group.  A note of an event is kept with its
\* index in the argument list (the object the Python list refers to)
EventOf(current_group, current_time) ==
    IF Len(current_group) > 1
      THEN [type |-> "chord", notes |-> current_group, time |-> current_time,
            num_notes |-> Len(current_group)]
      ELSE [type |-> "note", note |-> current_group[1], time |-> current_time]

\* The loop of group_into_chords from sorted note i on, and the last group
RECURSIVE GroupFrom(_, _, _, _, _, _)
GroupFrom(sorted_notes, i, time_window, events, current_group, current_time) ==
    IF i > Len(sorted_notes)
      THEN Append(events, EventOf(current_group, current_time))
    ELSE Only({ IF InWindow(note_time, current_time, time_window)
                  THEN GroupFrom(sorted_notes, i + 1, time_window, events,
                                 Append(current_group, sorted_notes[i]),
                                 current_time)
                  ELSE GroupFrom(sorted_notes, i + 1, time_window,
                                 Append(events,
                                        EventOf(current_group, current_time)),
                                 <<sorted_notes[i]>>, note_time)
                : note_time \in {Get(sorted_notes[i].note, "time", 0)} })

group_into_chords(notes, time_window) ==
    IF notes = <<>> THEN <<>>
    ELSE Only({ GroupFrom(sorted_notes, 2, time_window, <<>>,
                          <<sorted_notes[1]>>,
                          Get(sorted_notes[1].note, "time", 0))
                : sorted_notes \in
                    {SortByTime([i \in 1..Len(notes) |->
                                    [note |-> notes[i], idx |-> i]])} })

----------------------------------------------------------------------------
(* src/transcription/tab_generator.py *)

\* The fill character of a tab line
Fill == "-"

DigitChars == <<"0", "1", "2", "3", "4", "5", "6", "7", "8", "9">>

\* str(fret) for a fret >= 0: its decimal digits, as a sequence of characters
RECURSIVE FretStr(_)
FretStr(fret) ==
    IF fret < 10 THEN <<DigitChars[fret + 1]>>
    ELSE FretStr(fret \div 10) \o <<DigitChars[(fret % 10) + 1]>>

\* `string is not None and fret is not None and string < NUM_STRINGS`
ValidNote(note) ==
    /\ Get(note, "string", None) # None
    /\ Get(note, "fret", None) # None
    /\ note["string"] < NUM_STRINGS

\* valid_notes, as indices into notes
RECURSIVE FilterValid(_, _)
FilterValid(notes, i) ==
    IF i > Len(notes) THEN <<>>
    ELSE (IF ValidNote(notes[i]) THEN <<i>> ELSE <<>>) \o FilterValid(notes, i + 1)

\* max(time + duration) over the valid notes, in milliseconds
RECURSIVE MaxTime(_, _, _)
MaxTime(notes, valid, k) ==
    LET note == notes[valid[k]]
        end == Get(note, "time", 0) + Get(note, "duration", 100)
    IN  IF k = Len(valid) THEN end
        ELSE Only({ IF end > rest THEN end ELSE rest
                    : rest \in {MaxTime(notes, valid, k + 1)} })

StringIdxUnreversed(string) == string

\* `NUM_STRINGS - 1 - note.get('string')`: the highest string is line 0
StringIdx(string) == NUM_STRINGS - 1 - string

\* int(seconds * chars_per_second) of a time >= 0 in milliseconds
Column(time, cps) == (time * cps) \div 1000

\* The columns position .. position + len - 1 below tab_length
Cells(position, len, tab_length) ==
    {c \in position..(position + len - 1) : c < tab_length}

\* Lines 74-82: the position after the availability check
Shift(position, fret_str, row_occupied, tab_length) ==
    IF \E offset \in 0..(Len(fret_str) - 1) : position + offset \in row_occupied
      THEN position + 1
      ELSE position

\* The placing loop from valid note k on.  placed records, for each note that
\* reached line 92, where it was written, which the claims need and the code
\* does not keep
RECURSIVE PlaceFrom(_, _, _, _, _, _, _, _)
PlaceFrom(notes, valid, k, cps, tab_length, tab_lines, occupied, placed) ==
    IF k > Len(valid)
      THEN [raised |-> FALSE, tab_lines |-> tab_lines, placed |-> placed]
      ELSE LET note == notes[valid[k]]
               position == Column(Get(note, "time", 0), cps)
               string_idx == StringIdx(note["string"])
               \* the element of the NUM_STRINGS-element lists that
               \* string_idx reads and writes
               line == IF string_idx < 0 THEN string_idx + NUM_STRINGS
                       ELSE string_idx
               fret_str == FretStr(note["fret"])
           IN  IF position >= tab_length
                 THEN PlaceFrom(notes, valid, k + 1, cps, tab_length, tab_lines,
                                occupied, placed)
               \* occupied[string_idx] of a list of NUM_STRINGS sets
               ELSE IF string_idx >= NUM_STRINGS \/ string_idx < -NUM_STRINGS
                 THEN [raised |-> TRUE, error |-> "IndexError"]
               ELSE Only({
                      IF shifted >= tab_length
                        THEN PlaceFrom(notes, valid, k + 1, cps, tab_length,
                                       tab_lines, occupied, placed)
                        ELSE PlaceFrom(notes, valid, k + 1, cps, tab_length,
                               [tab_lines EXCEPT ![line] =
                                  [c \in 0..(tab_length - 1) |->
                                     IF c \in Cells(shifted, Len(fret_str), tab_length)
                                       THEN fret_str[c - shifted + 1]
                                       ELSE @[c]]],
                               [occupied EXCEPT ![line] =
                                  @ \cup Cells(shifted, Len(fret_str), tab_length)],
                               Append(placed,
                                      [note |-> valid[k], row |-> line,
                                       column |-> shifted,
                                       available |-> shifted = position]))
                      : shifted \in {Shift(position, fret_str,
                                           occupied[line], tab_length)} })

\* What generate returns: one of the two messages, or the tab with its lines
\* (row 0 first), the notes kept and the count of notes placed; or the
\* exception.  The header, the per-source counts and the statistics lines of
\* the text are not modelled beyond these counts
generate(notes, cps) ==
    IF notes = <<>> THEN [text |-> "No notes detected in audio/video."]
    ELSE Only({
           IF valid_notes = <<>>
             THEN [text |-> "No valid notes detected (all notes filtered out)."]
             ELSE Only({
                    Only({ IF r.raised THEN Raise(r.error)
                           ELSE [text |-> "tab",
                                 valid_notes |-> valid_notes,
                                 tab_length |-> tab_length,
                                 tab_lines |-> r.tab_lines,
                                 placed |-> r.placed,
                                 notes_placed |-> Len(r.placed)]
                           : r \in {PlaceFrom(notes, valid_notes, 1, cps, tab_length,
                                       [i \in 0..(NUM_STRINGS - 1) |->
                                          [c \in 0..(tab_length - 1) |-> Fill]],
                                       [i \in 0..(NUM_STRINGS - 1) |-> {}],
                                       <<>>)} })
                    : tab_length \in
                        {Column(MaxTime(notes, valid_notes, 1), cps) + 20} })
           : valid_notes \in {FilterValid(notes, 1)} })

----------------------------------------------------------------------------
(* Inputs *)

\* The two input lists hold at most MaxNotes notes together
MaxNotes == 3

\* Each input list of the matcher's specification holds at most MaxMatch notes
MaxMatch == 3

SeqsUpTo(S, n) == UNION {[1..k -> S] : k \in 0..n}

\* 110 Hz resolved to the open A string; 220 Hz, unresolved, no confidence;
\* A2 fretted on the low E string; 60 cents sharp of A2; D3 on the A string;
\* D3 on the open D string at confidence 0
AudioPool ==
    { [time |-> 1000, frequency |-> -2400, string |-> 1, fret |-> 0,
       confidence |-> 90000],
      [time |-> 2000, frequency |-> -1200],
      [time |-> 1000, duration |-> 500, frequency |-> -2400, string |-> 0,
       fret |-> 5, confidence |-> 50000],
      [time |-> 2000, frequency |-> -2340, string |-> 0, fret |-> 5,
       confidence |-> 100000],
      [time |-> 1000, frequency |-> -1900, string |-> 1, fret |-> 5,
       confidence |-> 70000],
      [time |-> 2100, frequency |-> -1900, string |-> 2, fret |-> 0,
       confidence |-> 0] }

VideoPool ==
    { [time |-> 1050, string |-> 1, fret |-> 0, played |-> TRUE,
       confidence |-> 80000],
      [time |-> 2020, string |-> 1, fret |-> 0],
      [timestamp |-> 2020, string |-> 1, fret |-> 0, played |-> TRUE,
       confidence |-> 100000, finger |-> 1],
      [time |-> 1050, timestamp |-> 1050, string |-> 1, fret |-> 0,
       played |-> FALSE, strumming |-> TRUE, confidence |-> 100000],
      [time |-> 2100, string |-> 4, fret |-> 1, played |-> TRUE,
       confidence |-> 0],
      [time |-> 3000, string |-> 4, fret |-> 1, played |-> FALSE,
       confidence |-> 30000] }

\* No context; the pipeline's audio context; a full one
AudioContexts ==
    { EmptyDict,
      [onset_strength |-> 5 * One],
      [onset_strength |-> 12 * One, frequency_variance |-> 0] }

\* No context; the pipeline's before and after calibration; a full one
VideoContexts ==
    { EmptyDict,
      [calibration_quality |-> 0],
      [position_clarity |-> One, picking_detected |-> TRUE,
       calibration_quality |-> One] }

\* The default weights and the ends of their documented range (0-1)
Weights == { <<4, 6>>, <<10, 10>>, <<0, 10>> }

\* Inputs of the matcher: notes that differ in their times (two of the audio
\* notes share one), video notes timed by either key.  The time differences
\* are within the tolerance (0, 0.125), at it (0.15) and beyond it; 0.875 and
\* 1.125 are equally distant from 1.0.
MatchAudioPool ==
    { [time |-> 1000], [time |-> 1000, frequency |-> -2400], [time |-> 875],
      [time |-> 1125], [time |-> 0] }

MatchVideoPool ==
    { [time |-> 1000], [timestamp |-> 1125], [time |-> 150],
      [time |-> 1250, timestamp |-> 1250] }

\* An optional tuning argument
NoTuning == [none |-> TRUE]

TuningList(l) == [list |-> l]

\* Drop D, a tuning other than the standard one
DropD ==
    << <<"D", 2>>, <<"A", 2>>, <<"D", 3>>, <<"G", 3>>, <<"B", 3>>, <<"E", 4>> >>

TuningArgs == {NoTuning, TuningList(<<>>), TuningList(STANDARD_TUNING),
               TuningList(DropD)}

\* Frequencies in cents from A4: 80.01 Hz, 51 cents below the open low E;
\* A2 (110 Hz); A3 (220 Hz); 40 cents above A3; 40 cents above F#5; E6, the
\* highest cell (1174.7 Hz); 1497 Hz and 30 Hz, outside the range of 80 to
\* 1200 Hz
FreqPool == {-2951, -2400, -1200, -1160, 940, 1700, 2120, -4651}

\* The frames of map_to_guitar: at most MaxFrames samples half a second apart
MaxFrames == 3

FrameTimes(n) == [j \in 1..n |-> 500 * (j - 1)]

MapFreqPool == {-1200, 1700}

MapConfPool == {50000, 90000}

\* No onset; onsets on and between the frames, and after the last
OnsetPool == {<<>>, <<0>>, <<0, 500>>, <<250>>, <<0, 500, 1000>>}

\* Each list given to the optimizer alone holds at most MaxOpt notes
MaxOpt == 3

\* Fused notes as the optimizer may receive them: a trusted merge on the open
\* A string; a trusted merge ten frets up the low E string whose alternate is
\* next to the open A; the same position as a weighted resolution; a weighted
\* resolution whose alternate is far away; a corrected position with its
\* alternate-fingering flag; a video-only note of confidence 0.8 with an
\* alternate; an unresolved audio-only note; a merge of low confidence; a
\* weighted resolution four frets up the A string whose alternate is three
\* frets lower
OptPool ==
    { [time |-> 1000, string |-> 1, fret |-> 0, frequency |-> -2400,
       confidence |-> 90000, source |-> "fused"],
      [time |-> 2000, string |-> 0, fret |-> 10, frequency |-> -1900,
       confidence |-> 90000, source |-> "fused",
       video_position |-> [string |-> 1, fret |-> 1]],
      [time |-> 2000, string |-> 0, fret |-> 10, frequency |-> -1900,
       confidence |-> 64000, source |-> "audio_weighted",
       video_position |-> [string |-> 1, fret |-> 1]],
      [time |-> 2500, string |-> 1, fret |-> 2, frequency |-> -2200,
       confidence |-> 50000, source |-> "audio_weighted",
       video_position |-> [string |-> 5, fret |-> 12]],
      [time |-> 3000, string |-> 2, fret |-> 0, frequency |-> -1900,
       confidence |-> 70000, source |-> "position_corrected",
       alternate_fingering |-> TRUE],
      [time |-> 3000, string |-> 3, fret |-> 7, confidence |-> 80000,
       source |-> "video_only",
       video_position |-> [string |-> 2, fret |-> 0]],
      [time |-> 3500, frequency |-> -1200, confidence |-> 36000,
       source |-> "audio_only"],
      [time |-> 4000, string |-> 4, fret |-> 1, frequency |-> -900,
       confidence |-> 50000, source |-> "fused"],
      [time |-> 4500, string |-> 1, fret |-> 4, frequency |-> -2000,
       confidence |-> 50000, source |-> "audio_weighted",
       video_position |-> [string |-> 1, fret |-> 1]] }

\* The inputs of the pipeline's fusion and optimization steps: audio notes
\* resolved to a position, video notes some of which have no string or no
\* fret (None, or the key missing); A2 on the open A string, D3 on the open D
\* string and ten frets up the low E string, A2 five frets up the low E string
PipelineAudioPool ==
    { [time |-> 1000, frequency |-> -2400, string |-> 1, fret |-> 0,
       confidence |-> 90000],
      [time |-> 2000, frequency |-> -1900, string |-> 2, fret |-> 0,
       confidence |-> 100000],
      [time |-> 2000, frequency |-> -1900, string |-> 0, fret |-> 10,
       confidence |-> 100000],
      [time |-> 1000, frequency |-> -2400, string |-> 0, fret |-> 5,
       confidence |-> 50000] }

PipelineVideoPool ==
    { [time |-> 1000, string |-> None, fret |-> 3, played |-> TRUE,
       confidence |-> 100000],
      [time |-> 1000, string |-> 1, fret |-> None, played |-> TRUE,
       confidence |-> 100000],
      [time |-> 2000, fret |-> 1, played |-> TRUE, confidence |-> 80000],
      [time |-> 2000, string |-> 4, fret |-> 1, played |-> TRUE,
       confidence |-> 80000],
      [time |-> 1000, string |-> 1, fret |-> 0, played |-> TRUE,
       confidence |-> 80000] }

\* Each input list of the pipeline's specification holds at most MaxPipeline
\* notes
MaxPipeline == 2

\* The optimizer's variables while no PositionOptimizer is used
OptimizerOff ==
    /\ opc = "off"
    /\ opt_input = <<>>
    /\ optimized = <<>>

\* Each list given to the tab generator holds at most MaxTab notes
MaxTab == 3

\* Notes for the tab: fret 3 on the low E string at 0.0 s for half a second;
\* fret 12 on it at 0.1 s; fret 5 on it at 0.0 s; fret 7 on it at 0.125 s;
\* the open high E string at 0.25 s; a note on string -1 and one on string 6;
\* a note with no string and no fret; a note whose fret is None
TabPool ==
    { [time |-> 0, string |-> 0, fret |-> 3, duration |-> 500],
      [time |-> 100, string |-> 0, fret |-> 12],
      [time |-> 0, string |-> 0, fret |-> 5],
      [time |-> 125, string |-> 0, fret |-> 7],
      [time |-> 250, string |-> 5, fret |-> 0],
      [time |-> 0, string |-> -1, fret |-> 3],
      [time |-> 0, string |-> 6, fret |-> 1],
      [time |-> 500, frequency |-> -1200],
      [time |-> 250, string |-> 2, fret |-> None] }

\* chars_per_second: the default, and a sparser tab
Densities == {8, 4}

\* No text returned yet
NoTab == [text |-> ""]

\* The tab generator's variables while no TabGenerator is used
TabOff ==
    /\ tpc = "off"
    /\ chars_per_second = 8
    /\ tab_notes = <<>>
    /\ tab = NoTab

\* Each list given to group_into_chords holds at most MaxChord notes
MaxChord == 4

\* Notes at 1.00, 1.02, 1.04 and 1.10 s; a second note at 1.00 s; a note
\* with no time
ChordPool ==
    { [time |-> 1000, string |-> 0, fret |-> 3],
      [time |-> 1020, string |-> 1, fret |-> 2],
      [time |-> 1040, string |-> 2, fret |-> 0],
      [time |-> 1100, string |-> 3, fret |-> 0],
      [time |-> 1000, string |-> 4, fret |-> 1],
      [string |-> 5, fret |-> 0] }

\* time_window: the default 0.05 s, and 0.1 s
Windows == {50, 100}

\* The chord grouping's variables while group_into_chords is not used
ChordOff ==
    /\ gpc = "off"
    /\ chord_notes = <<>>
    /\ time_window_arg = 50
    /\ grouped_events = <<>>

\* A monotonic run holds at most MaxScale notes
MaxScale == 4

\* The first notes of the runs, in semitones from A4: A2 (110 Hz) to C#3,
\* A3 to D4 and E4 to D5
ScaleStarts == {100 * k : k \in (-24..-20) \cup (-12..-7) \cup (-5..5)}

\* A scale of n notes from start, a semitone (100 cents) up or down per note;
\* one more sample ends the last note's window
ScaleRun(start, step, n) == [j \in 1..(n + 1) |-> start + step * (j - 1)]

\* The fusion engine's variables while the resolver alone is used
FusionOff ==
    /\ audio_weight = 4 /\ video_weight = 6
    /\ audio_notes = <<>> /\ video_notes = <<>>
    /\ audio_context = EmptyDict /\ video_context = EmptyDict
    /\ pc = "off"
    /\ matched_pairs = <<>>
    /\ unmatched_audio = <<>>
    /\ unmatched_video = <<>>
    /\ fused_notes = <<>>

\* The resolver's variables while no GuitarMapper is used
MapperOff ==
    /\ mpc = "off"
    /\ tuning_arg = NoTuning
    /\ tuning = <<>>
    /\ fretboard = <<>>
    /\ last_position = NoPosition
    /\ find_pool = {}
    /\ find_arg = 0
    /\ best_match = NoPosition
    /\ frequencies = <<>> /\ confidences = <<>> /\ times = <<>>
    /\ onset_times = <<>>
    /\ mapped_notes = <<>>
    /\ position_before = NoPosition

Init ==
    /\ MapperOff
    /\ OptimizerOff
    /\ TabOff
    /\ ChordOff
    /\ \E w \in Weights : audio_weight = w[1] /\ video_weight = w[2]
    /\ audio_notes \in SeqsUpTo(AudioPool, MaxNotes)
    /\ video_notes \in SeqsUpTo(VideoPool, MaxNotes - Len(audio_notes))
    /\ audio_context \in AudioContexts
    /\ video_context \in VideoContexts
    /\ pc = "ready"
    /\ matched_pairs = <<>>
    /\ unmatched_audio = <<>>
    /\ unmatched_video = <<>>
    /\ fused_notes = <<>>

\* A call of fuse_predictions on the inputs: the matcher, the loop over the
\* matched pairs, the two loops over the unmatched notes and the sort; an
\* exception in a pair leaves the call with nothing returned
FusePredictions ==
    /\ pc = "ready"
    /\ \E float64 \in BOOLEAN :
       \E m \in {_match_notes_by_time(audio_notes, video_notes)} :
       \E paired \in {FusePairs(audio_notes, video_notes, audio_context,
                                video_context, m.matched_pairs, 1, <<>>,
                                float64)} :
         /\ matched_pairs' = m.matched_pairs
         /\ unmatched_audio' = m.unmatched_audio
         /\ unmatched_video' = m.unmatched_video
         /\ IF paired.raised
              THEN pc' = "raised" /\ fused_notes' = <<>>
              ELSE \E with_audio \in
                        {FuseUnmatchedAudio(audio_notes, audio_context,
                                            m.unmatched_audio, 1, paired.notes)} :
                   \E with_video \in
                        {FuseUnmatchedVideo(video_notes, video_context,
                                            m.unmatched_video, 1, with_audio)} :
                     /\ pc' = "returned"
                     /\ fused_notes' = SortByTime(with_video)
    /\ UNCHANGED <<audio_weight, video_weight, audio_notes, video_notes,
                   audio_context, video_context>>
    /\ UNCHANGED <<mapper_vars, optimizer_vars, tab_vars, chord_vars>>

Next == FusePredictions

Spec == Init /\ [][Next]_vars

\* fuse_predictions with the constructor's defaults and no context, on the
\* matcher's inputs
InitMatch ==
    /\ MapperOff
    /\ OptimizerOff
    /\ TabOff
    /\ ChordOff
    /\ audio_weight = 4
    /\ video_weight = 6
    /\ audio_notes \in SeqsUpTo(MatchAudioPool, MaxMatch)
    /\ video_notes \in SeqsUpTo(MatchVideoPool, MaxMatch)
    /\ audio_context = EmptyDict
    /\ video_context = EmptyDict
    /\ pc = "ready"
    /\ matched_pairs = <<>>
    /\ unmatched_audio = <<>>
    /\ unmatched_video = <<>>
    /\ fused_notes = <<>>

SpecMatch == InitMatch /\ [][Next]_vars

\* GuitarMapper(tuning_arg)
Construct ==
    /\ mpc = "new"
    /\ tuning' = TuningOrStandard(tuning_arg)
    /\ fretboard' = _build_fretboard(TuningOrStandard(tuning_arg))
    /\ last_position' = NoPosition
    /\ mpc' = "constructed"
    /\ UNCHANGED <<tuning_arg, find_pool, find_arg, best_match, frequencies,
                   confidences, times, onset_times, mapped_notes,
                   position_before>>
    /\ UNCHANGED <<fusion_vars, optimizer_vars, tab_vars, chord_vars>>

\* A call of _find_best_position
FindBestPosition ==
    /\ mpc \in {"constructed", "found", "mapped"}
    /\ \E frequency \in find_pool :
       \E r \in {_find_best_position(tuning, last_position, frequency)} :
         /\ find_arg' = frequency
         /\ best_match' = r.best_match
         /\ last_position' = r.last_position
         /\ fretboard' = TableAfter(fretboard, r.best_match)
    /\ position_before' = last_position
    /\ mpc' = "found"
    /\ UNCHANGED <<tuning_arg, tuning, find_pool, frequencies, confidences,
                   times, onset_times, mapped_notes>>
    /\ UNCHANGED <<fusion_vars, optimizer_vars, tab_vars, chord_vars>>

\* A call of map_to_guitar on the arrays
MapToGuitar ==
    /\ mpc \in {"constructed", "found", "mapped"}
    /\ \E r \in {map_to_guitar(tuning, last_position, frequencies, confidences,
                                times, onset_times)} :
         /\ mapped_notes' = r.notes
         /\ last_position' = r.last_position
         /\ fretboard' = TableAfter(fretboard, r.last_position)
    /\ position_before' = last_position
    /\ mpc' = "mapped"
    /\ UNCHANGED <<tuning_arg, tuning, find_pool, find_arg, best_match,
                   frequencies, confidences, times, onset_times>>
    /\ UNCHANGED <<fusion_vars, optimizer_vars, tab_vars, chord_vars>>

NextMapper == Construct \/ FindBestPosition \/ MapToGuitar

\* A resolver made with any tuning argument; map_to_guitar on empty arrays
InitResolve ==
    /\ FusionOff
    /\ OptimizerOff
    /\ TabOff
    /\ ChordOff
    /\ mpc = "new"
    /\ tuning_arg \in TuningArgs
    /\ tuning = <<>>
    /\ fretboard = <<>>
    /\ last_position = NoPosition
    /\ find_pool = FreqPool
    /\ find_arg = 0
    /\ best_match = NoPosition
    /\ frequencies = <<>> /\ confidences = <<>> /\ times = <<>>
    /\ onset_times = <<>>
    /\ mapped_notes = <<>>
    /\ position_before = NoPosition

SpecResolve == InitResolve /\ [][NextMapper]_vars

\* A resolver of the standard tuning; any arrays of up to MaxFrames frames;
\* direct calls of _find_best_position pass the highest cell's frequency
InitMap ==
    /\ FusionOff
    /\ OptimizerOff
    /\ TabOff
    /\ ChordOff
    /\ mpc = "new"
    /\ tuning_arg = NoTuning
    /\ tuning = <<>>
    /\ fretboard = <<>>
    /\ last_position = NoPosition
    /\ find_pool = {1700}
    /\ find_arg = 0
    /\ best_match = NoPosition
    /\ \E n \in 0..MaxFrames :
         /\ frequencies \in [1..n -> MapFreqPool]
         /\ confidences \in [1..n -> MapConfPool]
         /\ times = FrameTimes(n)
    /\ onset_times \in OnsetPool
    /\ mapped_notes = <<>>
    /\ position_before = NoPosition

SpecMap == InitMap /\ [][NextMapper]_vars

\* map_to_guitar called on a scale
NextScale == Construct \/ MapToGuitar

\* A resolver of the standard tuning; a scale climbed or descended a semitone
\* at a time, one onset per note, every sample of full confidence
InitScale ==
    /\ FusionOff
    /\ OptimizerOff
    /\ TabOff
    /\ ChordOff
    /\ mpc = "new"
    /\ tuning_arg = NoTuning
    /\ tuning = <<>>
    /\ fretboard = <<>>
    /\ last_position = NoPosition
    /\ find_pool = {}
    /\ find_arg = 0
    /\ best_match = NoPosition
    /\ \E n \in 2..MaxScale : \E start \in ScaleStarts : \E step \in {100, -100} :
         /\ frequencies = ScaleRun(start, step, n)
         /\ confidences = [j \in 1..(n + 1) |-> One]
         /\ times = FrameTimes(n + 1)
         /\ onset_times = FrameTimes(n)
    /\ mapped_notes = <<>>
    /\ position_before = NoPosition

SpecScale == InitScale /\ [][NextScale]_vars

\* A call of optimize_positions on a list of its own
OptimizePositions ==
    /\ opc = "ready"
    /\ \E r \in {optimize_positions(opt_input)} :
         IF r.raised
           THEN opc' = "raised" /\ optimized' = <<>>
           ELSE opc' = "returned" /\ optimized' = r.optimized
    /\ UNCHANGED opt_input
    /\ UNCHANGED <<fusion_vars, mapper_vars, tab_vars, chord_vars>>

NextOptimizer == OptimizePositions

InitOptimize ==
    /\ FusionOff
    /\ MapperOff
    /\ TabOff
    /\ ChordOff
    /\ opc = "ready"
    /\ opt_input \in SeqsUpTo(OptPool, MaxOpt)
    /\ optimized = <<>>

SpecOptimize == InitOptimize /\ [][NextOptimizer]_vars

\* The notes of the fused list
NotesOf(fused) == [i \in 1..Len(fused) |-> fused[i].note]

\* The pipeline's step after the fusion: optimize_positions(fused_notes).  The
\* notes of fused_notes are the objects the call changes in place
OptimizeFused ==
    /\ pc = "returned"
    /\ opc = "awaiting"
    /\ opt_input' = NotesOf(fused_notes)
    /\ \E r \in {optimize_positions(NotesOf(fused_notes))} :
         /\ fused_notes' = [i \in 1..Len(fused_notes) |->
                               [fused_notes[i] EXCEPT !.note = r.notes[i]]]
         /\ IF r.raised
              THEN opc' = "raised" /\ optimized' = <<>>
              ELSE opc' = "returned" /\ optimized' = r.optimized
    /\ UNCHANGED <<audio_weight, video_weight, audio_notes, video_notes,
                   audio_context, video_context, pc, matched_pairs,
                   unmatched_audio, unmatched_video>>
    /\ UNCHANGED <<mapper_vars, tab_vars, chord_vars>>

NextPipeline == FusePredictions \/ OptimizeFused

\* run(): the fusion with the default weights, then the optimizer on what it
\* returns
InitPipeline ==
    /\ MapperOff
    /\ audio_weight = 4
    /\ video_weight = 6
    /\ audio_notes \in SeqsUpTo(PipelineAudioPool, MaxPipeline)
    /\ video_notes \in SeqsUpTo(PipelineVideoPool, MaxPipeline)
    /\ audio_context \in AudioContexts
    /\ video_context \in VideoContexts
    /\ pc = "ready"
    /\ matched_pairs = <<>>
    /\ unmatched_audio = <<>>
    /\ unmatched_video = <<>>
    /\ fused_notes = <<>>
    /\ opc = "awaiting"
    /\ opt_input = <<>>
    /\ optimized = <<>>
    /\ TabOff
    /\ ChordOff

SpecPipeline == InitPipeline /\ [][NextPipeline]_vars

\* _process_audio: the notes map_to_guitar returns are the audio notes of the
\* fusion
ProcessAudio ==
    /\ mpc = "constructed"
    /\ pc = "waiting"
    /\ \E r \in {map_to_guitar(tuning, last_position, frequencies, confidences,
                                times, onset_times)} :
         /\ mapped_notes' = r.notes
         /\ audio_notes' = r.notes
         /\ last_position' = r.last_position
         /\ fretboard' = TableAfter(fretboard, r.last_position)
    /\ position_before' = last_position
    /\ mpc' = "mapped"
    /\ pc' = "ready"
    /\ UNCHANGED <<tuning_arg, tuning, find_pool, find_arg, best_match,
                   frequencies, confidences, times, onset_times>>
    /\ UNCHANGED <<audio_weight, video_weight, video_notes, audio_context,
                   video_context, matched_pairs, unmatched_audio,
                   unmatched_video, fused_notes>>
    /\ UNCHANGED <<optimizer_vars, tab_vars, chord_vars>>

\* run() up to the fusion: the resolver is built, the audio is resolved, the
\* audio notes are fused with the video notes
NextTranscribe == Construct \/ ProcessAudio \/ FusePredictions

\* Video notes near the onsets: the open A string, played and not; the A
\* string at fret 12; the open high E string
TranscribeVideoPool ==
    { [time |-> 50, string |-> 1, fret |-> 0, played |-> TRUE,
       confidence |-> 80000],
      [time |-> 520, string |-> 1, fret |-> 0, played |-> FALSE,
       confidence |-> 100000],
      [time |-> 0, string |-> 1, fret |-> 12, played |-> TRUE,
       confidence |-> 80000],
      [time |-> 500, string |-> 5, fret |-> 0, played |-> TRUE,
       confidence |-> 60000] }

\* A pipeline of the standard tuning and the default weights before its audio
\* is processed: the pitch frames, of one confidence, the onsets and the video
\* notes; the audio context is the one run() passes
InitTranscribe ==
    /\ OptimizerOff
    /\ TabOff
    /\ ChordOff
    /\ mpc = "new"
    /\ tuning_arg = NoTuning
    /\ tuning = <<>>
    /\ fretboard = <<>>
    /\ last_position = NoPosition
    /\ find_pool = {}
    /\ find_arg = 0
    /\ best_match = NoPosition
    /\ \E n \in 0..MaxFrames : \E c \in MapConfPool :
         /\ frequencies \in [1..n -> MapFreqPool]
         /\ confidences = [j \in 1..n |-> c]
         /\ times = FrameTimes(n)
    /\ onset_times \in {<<0>>, <<0, 500>>, <<250>>}
    /\ mapped_notes = <<>>
    /\ position_before = NoPosition
    /\ audio_weight = 4
    /\ video_weight = 6
    /\ audio_notes = <<>>
    /\ video_notes \in SeqsUpTo(TranscribeVideoPool, MaxPipeline)
    /\ audio_context = [onset_strength |-> 5 * One]
    /\ video_context = EmptyDict
    /\ pc = "waiting"
    /\ matched_pairs = <<>>
    /\ unmatched_audio = <<>>
    /\ unmatched_video = <<>>
    /\ fused_notes = <<>>

SpecTranscribe == InitTranscribe /\ [][NextTranscribe]_vars

\* A call of generate on the notes
Generate ==
    /\ tpc = "ready"
    /\ \E r \in {generate(tab_notes, chars_per_second)} :
         IF Raised(r)
           THEN tpc' = "raised" /\ tab' = NoTab
           ELSE tpc' = "returned" /\ tab' = r
    /\ UNCHANGED <<chars_per_second, tab_notes>>
    /\ UNCHANGED <<fusion_vars, mapper_vars, optimizer_vars, chord_vars>>

NextTab == Generate

\* TabGenerator() with the default density or TabGenerator(4), and any list
\* of notes
InitTab ==
    /\ FusionOff
    /\ MapperOff
    /\ OptimizerOff
    /\ tpc = "ready"
    /\ chars_per_second \in Densities
    /\ tab_notes \in SeqsUpTo(TabPool, MaxTab)
    /\ tab = NoTab
    /\ ChordOff

SpecTab == InitTab /\ [][NextTab]_vars

\* A call of group_into_chords on the notes
GroupIntoChords ==
    /\ gpc = "ready"
    /\ grouped_events' = group_into_chords(chord_notes, time_window_arg)
    /\ gpc' = "returned"
    /\ UNCHANGED <<chord_notes, time_window_arg>>
    /\ UNCHANGED <<fusion_vars, mapper_vars, optimizer_vars, tab_vars>>

NextChord == GroupIntoChords

InitChord ==
    /\ FusionOff
    /\ MapperOff
    /\ OptimizerOff
    /\ TabOff
    /\ gpc = "ready"
    /\ chord_notes \in SeqsUpTo(ChordPool, MaxChord)
    /\ time_window_arg \in Windows
    /\ grouped_events = <<>>

SpecChord == InitChord /\ [][NextChord]_vars

----------------------------------------------------------------------------
(* The time matcher *)

AudioIdx == 1..Len(audio_notes)

VideoIdx == 1..Len(video_notes)

PairIdx == DOMAIN matched_pairs

\* |t_audio - t_video| of audio note a and video note v
TimeDiff(a, v) ==
    Abs(Get(audio_notes[a], "time", 0)
        - Get(video_notes[v], "time", Get(video_notes[v], "timestamp", 0)))

Occurrences(s, x) == Cardinality({i \in DOMAIN s : s[i] = x})

\* C1: after matching, no audio note and no video note is in two matched
\* pairs, and every input note is in exactly one of the matched pairs and the
\* unmatched list of its side.
C1_MatchPartition ==
    pc # "ready" =>
      /\ \A i, j \in PairIdx :
            i # j => /\ matched_pairs[i][1] # matched_pairs[j][1]
                     /\ matched_pairs[i][2] # matched_pairs[j][2]
      /\ \A i \in PairIdx : /\ matched_pairs[i][1] \in AudioIdx
                             /\ matched_pairs[i][2] \in VideoIdx
      /\ \A a \in AudioIdx :
            Cardinality({i \in PairIdx : matched_pairs[i][1] = a})
              + Occurrences(unmatched_audio, a) = 1
      /\ \A v \in VideoIdx :
            Cardinality({i \in PairIdx : matched_pairs[i][2] = v})
              + Occurrences(unmatched_video, v) = 1
      /\ \A i \in DOMAIN unmatched_audio : unmatched_audio[i] \in AudioIdx
      /\ \A i \in DOMAIN unmatched_video : unmatched_video[i] \in VideoIdx

\* A run with a matched pair, an unmatched audio note and a video note left
\* unmatched although an audio note is within the tolerance (it was used)
C1_Witness ==
    /\ pc = "returned"
    /\ matched_pairs # <<>>
    /\ unmatched_audio # <<>>
    /\ \E i \in DOMAIN unmatched_video :
          \E a \in AudioIdx : TimeDiff(a, unmatched_video[i]) < time_tolerance

\* The audio notes used by the video notes before v
UsedBefore(v) ==
    {matched_pairs[i][1] : i \in {j \in PairIdx : matched_pairs[j][2] < v}}

\* C2: video notes are processed in input order; each is paired with the
\* not-yet-used audio note of minimal absolute time difference, the lowest
\* index among equals, iff that difference is strictly below the tolerance,
\* and is left unmatched otherwise.
C2_NearestWithinTolerance ==
    pc # "ready" =>
      /\ \A i, j \in PairIdx : i < j => matched_pairs[i][2] < matched_pairs[j][2]
      /\ \A v \in VideoIdx :
            LET free == AudioIdx \ UsedBefore(v)
                nearest == {a \in free :
                              /\ \A b \in free : TimeDiff(a, v) <= TimeDiff(b, v)
                              /\ \A b \in free :
                                    b < a => TimeDiff(a, v) < TimeDiff(b, v)}
                paired == {matched_pairs[i][1] :
                             i \in {j \in PairIdx : matched_pairs[j][2] = v}}
            IN  paired = {a \in nearest : TimeDiff(a, v) < time_tolerance}

\* A run in which a pair was made although a second unused audio note was
\* as close, and a video note stayed unmatched with an unused audio note
\* exactly at the tolerance
C2_Witness ==
    /\ pc = "returned"
    /\ \E i \in PairIdx :
          \E b \in AudioIdx \ UsedBefore(matched_pairs[i][2]) :
            /\ b # matched_pairs[i][1]
            /\ TimeDiff(b, matched_pairs[i][2])
                 = TimeDiff(matched_pairs[i][1], matched_pairs[i][2])
    /\ \E i \in DOMAIN unmatched_video :
          \E b \in AudioIdx \ UsedBefore(unmatched_video[i]) :
            TimeDiff(b, unmatched_video[i]) = time_tolerance

\* The matched pairs of the audio list reordered by perm, each pair as
\* <<audio note, video index>>
PairsOf(perm) ==
    LET audio == [i \in AudioIdx |-> audio_notes[perm[i]]]
        m == _match_notes_by_time(audio, video_notes).matched_pairs
    IN  {<<audio[m[i][1]], m[i][2]>> : i \in DOMAIN m}

\* The pairs the run made
PairsMade == {<<audio_notes[matched_pairs[i][1]], matched_pairs[i][2]>> : i \in PairIdx}

\* No two different audio notes are equally distant, within the tolerance,
\* from one video note
NoTies ==
    \A v \in VideoIdx : \A a, b \in AudioIdx :
        (/\ audio_notes[a] # audio_notes[b]
         /\ TimeDiff(a, v) < time_tolerance)
          => TimeDiff(a, v) # TimeDiff(b, v)

\* C3 as claimed: every permutation of the audio list yields the same set of
\* matched (audio note, video note) pairs.
C3_ReorderInvariant ==
    pc = "returned" => \A perm \in Permutations(AudioIdx) : PairsOf(perm) = PairsMade

\* C3 as amended: every permutation of the audio list yields the same set of
\* matched pairs, provided no two different audio notes are equally distant,
\* within the tolerance, from one video note.
C3_ReorderInvariantNoTies ==
    (pc = "returned" /\ NoTies)
      => \A perm \in Permutations(AudioIdx) : PairsOf(perm) = PairsMade

\* A run without ties in which a video note had two audio notes within the
\* tolerance to choose from, the nearer one not first in the list
C3_Witness ==
    /\ pc = "returned"
    /\ NoTies
    /\ \E i \in PairIdx : \E b \in AudioIdx :
          /\ b < matched_pairs[i][1]
          /\ b \notin UsedBefore(matched_pairs[i][2])
          /\ TimeDiff(b, matched_pairs[i][2]) < time_tolerance


----------------------------------------------------------------------------
(* fuse_predictions *)

OutIdx == DOMAIN fused_notes

\* The output notes made of the matched pair <<a, v>>
NotesOfPair(a, v) == {i \in OutIdx : fused_notes[i].a = a /\ fused_notes[i].v = v}

AudioConf(a) == score_audio_prediction(audio_notes[a], audio_context)

VideoConf(v) == score_video_prediction(video_notes[v], video_context)

\* C4: a video note the matcher left unmatched whose played flag is false or
\* absent is no note of the output, whatever its confidence and the context.
C4_UnplayedVideoNeverEmitted ==
    pc = "returned" =>
      \A k \in DOMAIN unmatched_video :
        ~Get(video_notes[unmatched_video[k]], "played", FALSE)
          => \A i \in OutIdx : fused_notes[i].v # unmatched_video[k]

\* A run with an unmatched, unplayed video note whose score passes the
\* inclusion threshold 0.4, next to an emitted note
C4_Witness ==
    /\ pc = "returned"
    /\ fused_notes # <<>>
    /\ \E k \in DOMAIN unmatched_video :
         /\ ~Get(video_notes[unmatched_video[k]], "played", FALSE)
         /\ VideoConf(unmatched_video[k]) * 10 > One * 4

\* The rule the claim's priority order gives the pair of audio note a and
\* video note v
RuleOf(a, v) ==
    LET c == compare_predictions(audio_notes[a], video_notes[v])
    IN  IF c.string_match /\ c.fret_match THEN "exact"
        ELSE IF c.frequency_diff_cents > 1100 /\ c.frequency_diff_cents < 1300
          THEN "octave"
        ELSE IF c.frequency_diff_cents < 50 THEN "position"
        ELSE IF c.agreement < 5 THEN "disagreement"
        ELSE "default"

\* C5: every matched pair yields a note, made by the first applicable rule of
\* exact agreement, octave error, close pitch, disagreement, default; the
\* default merge has confidence (audio_weight * audio_conf + video_weight *
\* video_conf) * agreement.
C5_FirstApplicableRule ==
    pc # "ready" =>
      /\ pc = "returned"
      /\ \A p \in PairIdx :
           LET a == matched_pairs[p][1]
               v == matched_pairs[p][2]
               rule == RuleOf(a, v)
               agreement == compare_predictions(audio_notes[a], video_notes[v]).agreement
           IN  /\ Cardinality(NotesOfPair(a, v)) = 1
               /\ \A i \in NotesOfPair(a, v) :
                    LET note == fused_notes[i].note
                    IN  /\ rule = "exact" => note.source = "fused"
                        /\ rule = "octave" => note.source = "octave_corrected"
                        /\ rule = "position" => note.source = "position_corrected"
                        /\ rule = "disagreement" =>
                             note.source \in {"video_priority", "audio_priority",
                                              "video_weighted", "audio_weighted"}
                        /\ rule = "default" =>
                             note.confidence =
                               Times(Times(AudioConf(a), audio_weight)
                                     + Times(VideoConf(v), video_weight), agreement)

\* C6: every note of the output has its confidence in [0,1].
C6_ConfidenceInUnitRange ==
    \A i \in OutIdx : /\ fused_notes[i].note.confidence >= 0
                      /\ fused_notes[i].note.confidence <= One

\* The time of an output note: its 'time', else the 'timestamp' the matcher
\* accepts in its place
NoteTime(note) == Get(note, "time", Get(note, "timestamp", 0))

\* C7: the output is ordered by non-decreasing note time.
C7_SortedByNoteTime ==
    pc = "returned" =>
      \A i, j \in OutIdx :
        i < j => NoteTime(fused_notes[i].note) <= NoteTime(fused_notes[j].note)

\* C8: the audio note {time 1.00, 110 Hz at string 1 fret 0, confidence 0.9}
\* and the video note {time 1.05, string 1, fret 0, played, confidence 0.8},
\* fused with the default weights and no context, give exactly one note, by
\* exact agreement, with provenance 'fused', string 1, fret 0 and confidence
\* above 0.5.
C8_ExactAgreementScenario ==
    (/\ pc # "ready"
     /\ audio_notes = <<[time |-> 1000, frequency |-> -2400, string |-> 1,
                         fret |-> 0, confidence |-> 90000]>>
     /\ video_notes = <<[time |-> 1050, string |-> 1, fret |-> 0,
                         played |-> TRUE, confidence |-> 80000]>>
     /\ audio_weight = 4 /\ video_weight = 6
     /\ audio_context = EmptyDict /\ video_context = EmptyDict)
      => /\ pc = "returned"
         /\ Len(fused_notes) = 1
         /\ fused_notes[1].note.source = "fused"
         /\ fused_notes[1].note.agreement = 10
         /\ fused_notes[1].note.string = 1
         /\ fused_notes[1].note.fret = 0
         /\ fused_notes[1].note.confidence * 10 > One * 5

\* C9: a matched pair whose positions do not both agree and whose cents
\* difference is in (1100, 1300) yields one note with provenance
\* 'octave_corrected', the video note's string and fret, confidence
\* video_weight * video_conf * 1.2 and the raw audio frequency kept.
C9_OctaveCorrected ==
    pc = "returned" =>
      \A p \in PairIdx :
        LET a == matched_pairs[p][1]
            v == matched_pairs[p][2]
        IN  RuleOf(a, v) = "octave" =>
              /\ Cardinality(NotesOfPair(a, v)) = 1
              /\ \A i \in NotesOfPair(a, v) :
                   LET note == fused_notes[i].note
                   IN  /\ note.source = "octave_corrected"
                       /\ Get(note, "string", None) = Get(video_notes[v], "string", None)
                       /\ Get(note, "fret", None) = Get(video_notes[v], "fret", None)
                       /\ note.confidence * 100 = video_weight * VideoConf(v) * 12
                       /\ note.audio_frequency_raw = audio_notes[a].frequency

\* The claim's example: audio {time 2.00, 220 Hz} and video {time 2.02,
\* string 1, fret 0} with the default weights and no context give one note,
\* octave corrected to string 1 fret 0 with confidence 0.6 * 0.6 * 1.2
C9_Witness ==
    /\ pc = "returned"
    /\ audio_notes = <<[time |-> 2000, frequency |-> -1200]>>
    /\ video_notes = <<[time |-> 2020, string |-> 1, fret |-> 0]>>
    /\ audio_weight = 4 /\ video_weight = 6
    /\ audio_context = EmptyDict /\ video_context = EmptyDict
    /\ Len(fused_notes) = 1
    /\ fused_notes[1].note.source = "octave_corrected"
    /\ fused_notes[1].note.string = 1
    /\ fused_notes[1].note.fret = 0
    /\ fused_notes[1].note.time = 2000
    /\ fused_notes[1].note.confidence = 43200
    /\ fused_notes[1].note.audio_frequency_raw = -1200

\* C10: with no context at all, the scores the fusion records for a matched
\* pair are the notes' own raw confidence fields.
C10_RawConfidenceWithoutContext ==
    (pc = "returned" /\ audio_context = EmptyDict /\ video_context = EmptyDict)
      => \A i \in OutIdx :
           LET out == fused_notes[i]
           IN  "audio_confidence" \in DOMAIN out.note =>
                 /\ "confidence" \in DOMAIN audio_notes[out.a] =>
                      out.note.audio_confidence = audio_notes[out.a].confidence
                 /\ "confidence" \in DOMAIN video_notes[out.v] =>
                      out.note.video_confidence = video_notes[out.v].confidence

----------------------------------------------------------------------------
(* compare_predictions *)

\* The comparison fusion makes of matched pair p
ComparisonOf(p) ==
    compare_predictions(audio_notes[matched_pairs[p][1]],
                        video_notes[matched_pairs[p][2]])

SameString(p) ==
    Get(audio_notes[matched_pairs[p][1]], "string", None)
      = Get(video_notes[matched_pairs[p][2]], "string", None)

SameFret(p) ==
    Get(audio_notes[matched_pairs[p][1]], "fret", None)
      = Get(video_notes[matched_pairs[p][2]], "fret", None)

\* C11 as stated: agreement is 1.0 for an identical (string, fret), 0.0 when
\* neither string nor fret matches and the cents difference exceeds 100, and
\* strictly between 0 and 1 in every other case (string-only match, fret-only
\* match, mismatch within one semitone).
C11_AgreementThreeWay ==
    \A p \in PairIdx :
      LET c == ComparisonOf(p)
      IN  ~Raised(c) =>
            IF SameString(p) /\ SameFret(p) THEN c.agreement = 10
            ELSE IF ~SameString(p) /\ ~SameFret(p) /\ c.frequency_diff_cents > 100
              THEN c.agreement = 0
            ELSE c.agreement > 0 /\ c.agreement < 10

\* C11, amended: agreement is 1.0 when string and fret both match, 0.5 when
\* only the string matches, 0.7 when the string differs and the cents
\* difference is below 100, and 0.0 whenever the string differs and the cents
\* difference is 100 or more, a fret-only match included.
C11_AgreementByStringThenCents ==
    \A p \in PairIdx :
      LET c == ComparisonOf(p)
      IN  ~Raised(c) =>
            /\ c.agreement = 10 <=> (SameString(p) /\ SameFret(p))
            /\ c.agreement = 5 <=> (SameString(p) /\ ~SameFret(p))
            /\ c.agreement = 7 <=> (~SameString(p) /\ c.frequency_diff_cents < 100)
            /\ c.agreement = 0 <=> (~SameString(p) /\ c.frequency_diff_cents >= 100)

\* A run that compares a pair with the same fret on different strings, 500
\* cents apart: agreement 0.0
C11_Witness ==
    /\ pc = "returned"
    /\ \E p \in PairIdx :
         /\ ~SameString(p) /\ SameFret(p)
         /\ ComparisonOf(p).frequency_diff_cents = 500
         /\ ComparisonOf(p).agreement = 0

----------------------------------------------------------------------------
(* GuitarMapper *)

\* The cell of the resolver's table at a position
TableCell(position) == _build_fretboard(tuning)[position.string + 1][position.fret + 1]

\* C12: for a frequency of 80 to 1200 Hz and any last position,
\* _find_best_position fails or returns a cell with fret in [0, NUM_FRETS]
\* whose table frequency is within PITCH_TOLERANCE cents of the octave
\* candidate recorded as corrected_freq.
C12_ResolvedWithinTolerance ==
    (mpc = "found" /\ ~OutsideGuitarRange(find_arg)) =>
      \/ best_match = NoPosition
      \/ /\ best_match.string \in 0..(Len(tuning) - 1)
         /\ best_match.fret \in 0..NUM_FRETS
         /\ best_match.frequency = TableCell(best_match).frequency
         /\ best_match.detected_freq = find_arg
         /\ best_match.corrected_freq
              \in {find_arg, find_arg - 1200, find_arg + 1200}
         /\ Abs(best_match.corrected_freq - best_match.frequency)
              <= PITCH_TOLERANCE

\* 80.01 Hz, resolved after another note: the open low E is 51 cents away,
\* and the cell returned is 49 cents from the octave above
C12_Witness ==
    /\ mpc = "found"
    /\ tuning = STANDARD_TUNING
    /\ position_before # NoPosition
    /\ find_arg = -2951
    /\ best_match # NoPosition
    /\ best_match.corrected_freq = find_arg + 1200
    /\ Abs(best_match.corrected_freq - best_match.frequency) = 49

\* C13: whatever calls came before on the instance, map_to_guitar returns
\* the notes a freshly constructed instance (no last position) returns for
\* the same arrays.
C13_MemoryResetEachRun ==
    mpc = "mapped" =>
      mapped_notes =
        map_to_guitar(TuningOrStandard(tuning_arg), NoPosition, frequencies,
                      confidences, times, onset_times).notes

\* A call that began with a last position from which, had it been kept, the
\* same arrays would give other notes
C13_Witness ==
    /\ mpc = "mapped"
    /\ position_before # NoPosition
    /\ mapped_notes # <<>>
    /\ mapped_notes # MapOnsets(tuning, frequencies, confidences, times,
                                onset_times, 1, <<>>, position_before).notes

\* C14: constructing the resolver with an empty tuning fails; no usable
\* resolver comes of it.
C14_EmptyTuningFailsFast ==
    tuning_arg = TuningList(<<>>) => mpc \in {"new", "failed"}


----------------------------------------------------------------------------
(* Exceptions of the fusion core *)

\* C15: every call of fuse_predictions returns its note list and raises
\* nothing, also when a matched pair that disagrees has both confidences 0,
\* so that audio_weight * audio_conf + video_weight * video_conf is 0.
C15_FusionNeverRaises ==
    pc # "ready" => pc = "returned"


\* A position whose string or fret is null
NullPosition(d) == Get(d, "string", None) = None \/ Get(d, "fret", None) = None

\* The fusion's call matched a video note of null string or fret
NullVideoMatched ==
    /\ pc # "ready"
    /\ \E p \in PairIdx : NullPosition(video_notes[matched_pairs[p][2]])

\* The optimizer was called on a list with a note, or a note's alternate
\* position, of null string or fret
NullPositionOptimized ==
    /\ opc \in {"returned", "raised"}
    /\ \E i \in 1..Len(opt_input) :
         \/ NullPosition(opt_input[i])
         \/ /\ "video_position" \in DOMAIN opt_input[i]
            /\ NullPosition(opt_input[i]["video_position"])

\* C16: a video note whose string or fret is null never makes the core
\* raise: fuse_predictions returns when such a note is matched to an audio
\* note, and optimize_positions returns on every output of fuse_predictions
\* that holds a note, or an alternate position, of null string or fret.
C16_NullPositionNeverRaises ==
    /\ NullVideoMatched => pc = "returned"
    /\ NullPositionOptimized => opc = "returned"


----------------------------------------------------------------------------
(* optimize_positions *)

\* The keys optimize_positions may set or change
PositionKeys == {"string", "fret", "position_optimized"}

\* C20: optimize_positions returns a list as long as its input, holding the
\* same notes in the same order; a returned note differs from the one passed
\* in its string, fret and position_optimized marker at most, and a note of
\* provenance fused or video_only with confidence above 0.8 is returned with
\* every field as it was.
C20_OnlyPositionsChange ==
    opc = "returned" =>
      /\ Len(optimized) = Len(opt_input)
      /\ \A i \in 1..Len(opt_input) :
           LET before == opt_input[i]
               after == optimized[i]
           IN  /\ DOMAIN before \subseteq DOMAIN after
               /\ DOMAIN after \subseteq DOMAIN before \cup PositionKeys
               /\ \A k \in DOMAIN before \ PositionKeys : after[k] = before[k]
               /\ ( /\ before["source"] \in {"fused", "video_only"}
                    /\ before["confidence"] * 10 > One * 8 )
                  => after = before

\* A trusted note with a more playable alternate is returned as it was, after
\* a note whose position was exchanged for its alternate
C20_Witness ==
    /\ opc = "returned"
    /\ \E i, j \in 1..Len(opt_input) :
         /\ i < j
         /\ "position_optimized" \in DOMAIN optimized[i]
         /\ optimized[i]["string"] # opt_input[i]["string"]
         /\ opt_input[j]["source"] = "fused"
         /\ opt_input[j]["confidence"] = 90000
         /\ "video_position" \in DOMAIN opt_input[j]
         /\ optimized[j] = opt_input[j]


----------------------------------------------------------------------------
(* TabGenerator.generate *)

\* A note with a string of the instrument and a fret
InRange(note) ==
    /\ Get(note, "string", None) # None
    /\ Get(note, "fret", None) # None
    /\ note["string"] \in 0..(NUM_STRINGS - 1)

\* The notes the tab holds
PlacedIdx == DOMAIN tab.placed

Rendered == tpc = "returned" /\ tab.text = "tab"

\* C17: generate raises on no list; every note with no string, no fret, or
\* a string outside 0..NUM_STRINGS-1 (a negative one too) is left out of the
\* grid, and the other notes are rendered.
C17_InvalidNotesExcluded ==
    tpc # "ready" =>
      /\ tpc = "returned"
      /\ IF \E i \in DOMAIN tab_notes : InRange(tab_notes[i])
           THEN /\ tab.text = "tab"
                /\ {tab.placed[p].note : p \in PlacedIdx}
                     = {i \in DOMAIN tab_notes : InRange(tab_notes[i])}
           ELSE tab.text # "tab"

\* round(time * chars_per_second) of a time in milliseconds, halves to the
\* even neighbour
RoundedColumn(time, cps) ==
    LET q == (time * cps) \div 1000
        r == (time * cps) % 1000
    IN  IF r > 500 \/ (r = 500 /\ q % 2 = 1) THEN q + 1 ELSE q

\* The notes placed whose cell (row, c) is
Covering(row, c) ==
    {p \in PlacedIdx :
        /\ tab.placed[p].row = row
        /\ c \in tab.placed[p].column
                 ..(tab.placed[p].column
                    + Len(FretStr(tab_notes[tab.placed[p].note]["fret"])) - 1)}

\* Every cell shows the digit of the note placed on it, and the fill
\* character if there is none
CellsAsPlaced ==
    \A row \in 0..(NUM_STRINGS - 1) : \A c \in 0..(tab.tab_length - 1) :
      IF Covering(row, c) = {}
        THEN tab.tab_lines[row][c] = "-"
        ELSE \A p \in Covering(row, c) :
               tab.tab_lines[row][c] =
                 FretStr(tab_notes[tab.placed[p].note]["fret"])
                   [c - tab.placed[p].column + 1]

C19_NoNoteOverwritten ==
    Rendered =>
      /\ \A row \in 0..(NUM_STRINGS - 1) : \A c \in 0..(tab.tab_length - 1) :
           Cardinality(Covering(row, c)) <= 1
      /\ CellsAsPlaced


----------------------------------------------------------------------------
(* group_into_chords *)

\* The members of an event, in the event's order, as indices of the argument
MembersOf(event) ==
    IF event.type = "chord"
      THEN [k \in 1..Len(event.notes) |-> event.notes[k].idx]
      ELSE <<event.note.idx>>

RECURSIVE Flatten(_)
Flatten(seqs) == IF seqs = <<>> THEN <<>> ELSE Head(seqs) \o Flatten(Tail(seqs))

\* All members of all events, in order
AllMembers == Flatten([e \in 1..Len(grouped_events) |-> MembersOf(grouped_events[e])])

ChordTime(i) == Get(chord_notes[i], "time", 0)

\* C21: the events are consecutive groups of the notes in time order.  A
\* note is in the group of the anchor (the group's first note) iff it is less
\* than time_window from the anchor, else it opens the next group; a group of
\* several notes is one chord event with num_notes members and the anchor's
\* time, a group of one a single-note event; every note of the input is in
\* exactly one event.  Notes at 1.00, 1.02, 1.04 and 1.10 s with window 0.05
\* give a chord of 3 at 1.00 and then a single note.
C21_GroupsByAnchor ==
    gpc = "returned" =>
      /\ Len(AllMembers) = Len(chord_notes)
      /\ \A i \in DOMAIN chord_notes :
           Cardinality({k \in DOMAIN AllMembers : AllMembers[k] = i}) = 1
      /\ \A k \in 1..(Len(AllMembers) - 1) :
           ChordTime(AllMembers[k]) <= ChordTime(AllMembers[k + 1])
      /\ \A e \in DOMAIN grouped_events :
           LET event == grouped_events[e]
               members == MembersOf(event)
               anchor == ChordTime(members[1])
           IN  /\ event.time = anchor
               /\ \A k \in DOMAIN members :
                    Abs(ChordTime(members[k]) - anchor) < time_window_arg
               /\ e > 1 =>
                    Abs(anchor
                        - ChordTime(MembersOf(grouped_events[e - 1])[1]))
                      >= time_window_arg
               /\ IF Len(members) > 1
                    THEN event.type = "chord" /\ event.num_notes = Len(members)
                    ELSE event.type = "note"
      /\ ( /\ Len(chord_notes) = 4
           /\ \A i \in 1..4 : ChordTime(i) = <<1000, 1020, 1040, 1100>>[i]
           /\ time_window_arg = 50 )
         => /\ Len(grouped_events) = 2
            /\ grouped_events[1].type = "chord"
            /\ grouped_events[1].num_notes = 3
            /\ grouped_events[1].time = 1000
            /\ MembersOf(grouped_events[1]) = <<1, 2, 3>>
            /\ grouped_events[2].type = "note"
            /\ MembersOf(grouped_events[2]) = <<4>>

\* The claim's example: notes at 1.00, 1.02, 1.04, 1.10 s, in this order,
\* grouped with window 0.05 into a chord of three and a single note
C21_Witness ==
    /\ gpc = "returned"
    /\ Len(chord_notes) = 4
    /\ \A i \in 1..4 : ChordTime(i) = <<1000, 1020, 1040, 1100>>[i]
    /\ time_window_arg = 50
    /\ Len(grouped_events) = 2
    /\ grouped_events[1].type = "chord"


----------------------------------------------------------------------------
(* _find_best_position *)

\* The triples <<candidate, string, fret>> (counted from 1) the resolver
\* scores for the frequency of the last call: candidates f, f/2, 2f within
\* 80 to 1200 Hz
Triples ==
    {u \in (1..3) \X (1..Len(tuning)) \X (1..(NUM_FRETS + 1)) :
        LET c == <<find_arg, find_arg - 1200, find_arg + 1200>>[u[1]]
        IN  c >= -2951 /\ c <= 1736}

\* The score of a triple in the last call
ScoreAt(u) ==
    _calculate_position_score(_build_fretboard(tuning)[u[2]][u[3]],
                              <<find_arg, find_arg - 1200, find_arg + 1200>>[u[1]],
                              position_before)

\* u is seen before w: candidates in the order f, f/2, 2f, then strings, then
\* frets, ascending
SeenBefore(u, w) ==
    \/ u[1] < w[1]
    \/ u[1] = w[1] /\ u[2] < w[2]
    \/ u[1] = w[1] /\ u[2] = w[2] /\ u[3] < w[3]

\* C24: the resolver returns the cell of the least score over all triples
\* of octave candidate, string and fret, the first seen among equals, the
\* original frequency having no priority; it fails iff no triple has a finite
\* score.  From empty memory 220 Hz resolves to string 1, fret 0, corrected
\* to 110 Hz.
C24_GlobalMinimumFirstSeen ==
    mpc = "found" =>
      /\ IF \A u \in Triples : ScoreAt(u) >= Infinity
           THEN best_match = NoPosition
           ELSE /\ best_match # NoPosition
                /\ \E u \in Triples :
                     /\ best_match.string = u[2] - 1
                     /\ best_match.fret = u[3] - 1
                     /\ best_match.corrected_freq
                          = <<find_arg, find_arg - 1200, find_arg + 1200>>[u[1]]
                     /\ ScoreAt(u) < Infinity
                     /\ \A w \in Triples :
                          \/ ScoreAt(u) < ScoreAt(w)
                          \/ ScoreAt(u) = ScoreAt(w) /\ ~SeenBefore(w, u)
      /\ ( /\ find_arg = -1200
           /\ position_before = NoPosition
           /\ tuning = STANDARD_TUNING )
         => /\ best_match.string = 1
            /\ best_match.fret = 0
            /\ best_match.corrected_freq = -2400

\* 220 Hz resolved from empty memory on the standard tuning: the halved
\* candidate wins over the original
C24_Witness ==
    /\ mpc = "found"
    /\ find_arg = -1200
    /\ position_before = NoPosition
    /\ tuning = STANDARD_TUNING
    /\ best_match # NoPosition
    /\ best_match.corrected_freq = -2400
    /\ best_match.detected_freq = -1200


\* C25: a resolution that succeeds leaves last_position equal to the cell
\* it returned; one that fails leaves last_position as it was, empty or
\* set; the fretboard table is the one built from the tuning at construction
\* after any sequence of calls, and the tuning is unchanged.
C25_MemoryStateMachine ==
    /\ mpc = "found" =>
         IF best_match # NoPosition
           THEN last_position = best_match
           ELSE last_position = position_before
    /\ mpc \in {"constructed", "found", "mapped"} =>
         /\ fretboard = _build_fretboard(TuningOrStandard(tuning_arg))
         /\ tuning = TuningOrStandard(tuning_arg)

\* A resolution failed after one that succeeded: the memory is still set
C25_Witness ==
    /\ mpc = "found"
    /\ best_match = NoPosition
    /\ position_before # NoPosition
    /\ last_position = position_before
    /\ fretboard # <<>>


\* The cell a resolver with no memory chooses for a frequency
Memoryless(frequency) == _find_best_position(tuning, NoPosition, frequency).best_match

\* The frequency has finite scores at several cells
SeveralCells(frequency) ==
    Cardinality({x[4] : x \in FiniteScores(tuning, NoPosition, frequency)}) > 1

\* C22: on a monotonic run of frequencies, each resolvable at several cells,
\* no note resolved with the memory is farther in strings, or farther in
\* frets, from the cell chosen before it than the same note is from its
\* predecessor when both are resolved with no memory.
C22_MemoryNeverWidensJump ==
    ( /\ mpc = "mapped"
      /\ Len(mapped_notes) = Len(onset_times)
      /\ \A i \in DOMAIN mapped_notes : SeveralCells(mapped_notes[i].frequency) )
    => \A i \in 2..Len(mapped_notes) :
         LET free == Memoryless(mapped_notes[i].frequency)
             free_before == Memoryless(mapped_notes[i - 1].frequency)
         IN  /\ Abs(mapped_notes[i].string - mapped_notes[i - 1].string)
                  <= Abs(free.string - free_before.string)
             /\ Abs(mapped_notes[i].fret - mapped_notes[i - 1].fret)
                  <= Abs(free.fret - free_before.fret)


----------------------------------------------------------------------------
(* _fuse_note_pair, case 4, and _weighted_fusion *)

\* The note carries every field of the observation but its confidence and
\* provenance
CopyOf(note, observation) ==
    \A k \in DOMAIN observation \ {"confidence", "source"} :
      k \in DOMAIN note /\ note[k] = observation[k]

\* The matched pairs in the disagreement case
DisagreeingPairs == {p \in PairIdx : RuleOf(matched_pairs[p][1], matched_pairs[p][2])
                                       = "disagreement"}

\* C23: a matched pair in the disagreement case gives the video note as
\* 'video_priority' if video_conf > 1.5 * audio_conf; else the audio note as
\* 'audio_priority' with the video position as annotation if audio_conf >
\* 1.5 * video_conf; else, with a = audio_weight * audio_conf and
\* v = video_weight * video_conf, the video note as 'video_weighted' iff
\* v / (a + v) > 0.6 and else the audio note as 'audio_weighted' with the
\* video position as alternate, the confidence being (a + v) * 0.8.
C23_DisagreementDecision ==
    pc = "returned" =>
      \A p \in DisagreeingPairs :
        LET a == matched_pairs[p][1]
            v == matched_pairs[p][2]
            audio_conf == AudioConf(a)
            video_conf == VideoConf(v)
            a_share == Times(audio_conf, audio_weight)
            v_share == Times(video_conf, video_weight)
        IN  \A i \in NotesOfPair(a, v) :
              LET note == fused_notes[i].note
              IN  IF video_conf * 10 > audio_conf * 15
                    THEN /\ note.source = "video_priority"
                         /\ CopyOf(note, video_notes[v])
                  ELSE IF audio_conf * 10 > video_conf * 15
                    THEN /\ note.source = "audio_priority"
                         /\ CopyOf(note, audio_notes[a])
                         /\ Get(note, "string_video", None) = video_notes[v].string
                         /\ Get(note, "fret_video", None) = video_notes[v].fret
                  ELSE /\ note.confidence = Times(a_share + v_share, 8)
                       /\ IF v_share * 10 > (a_share + v_share) * 6
                            THEN /\ note.source = "video_weighted"
                                 /\ CopyOf(note, video_notes[v])
                            ELSE /\ note.source = "audio_weighted"
                                 /\ CopyOf(note, audio_notes[a])
                                 /\ Get(note, "video_position", None) =
                                      [string |-> video_notes[v].string,
                                       fret |-> video_notes[v].fret]

\* A disagreeing pair with the provenance src among the returned notes
Decided(src) ==
    /\ pc = "returned"
    /\ \E p \in DisagreeingPairs :
         \E i \in NotesOfPair(matched_pairs[p][1], matched_pairs[p][2]) :
           fused_notes[i].note.source = src

\* A disagreeing pair neither of whose confidences dominates, decided for the
\* audio note by the shares
C23_Witness == Decided("audio_weighted")


----------------------------------------------------------------------------
(* _optimize_single_position *)

\* max(0, 100 - 10 * max(0, fret_jump - 4) - 5 * max(0, string_jump - 3)
\*        + (20 if fret_jump <= 2 and string_jump <= 1 else 0))
Playability(position, previous) ==
    LET fret_jump == Abs(position.fret - previous.fret)
        string_jump == Abs(position.string - previous.string)
        excess_frets == IF fret_jump > 4 THEN fret_jump - 4 ELSE 0
        excess_strings == IF string_jump > 3 THEN string_jump - 3 ELSE 0
        bonus == IF fret_jump <= 2 /\ string_jump <= 1 THEN 20 ELSE 0
        score == 100 - 10 * excess_frets - 5 * excess_strings + bonus
    IN  IF score < 0 THEN 0 ELSE score

\* The position emitted for the note before note i
Previous(i) == PositionOf(optimized[i - 1])

\* The notes of the list that carry an alternate and follow a note emitted
\* with a position
WithAlternate ==
    {i \in 2..Len(opt_input) :
       /\ "video_position" \in DOMAIN opt_input[i]
       /\ ~NullPosition(Previous(i)) }

\* Note i was moved to its alternate
Moved(i) ==
    /\ optimized[i] # opt_input[i]
    /\ PositionOf(optimized[i]) = opt_input[i]["video_position"]

\* playability(alternate, previous) > 1.2 * playability(current, previous)
AlternateWins(i) ==
    Playability(opt_input[i]["video_position"], Previous(i)) * 10
      > Playability(PositionOf(opt_input[i]), Previous(i)) * 12

\* Of provenance fused or video_only with confidence above 0.8
Trusted(note) ==
    /\ Get(note, "source", None) \in {"fused", "video_only"}
    /\ Get(note, "confidence", 0) * 10 > One * 8

\* C26 as stated: a note carrying a video_position alternate, after a note
\* emitted with a position, is moved to the alternate iff the alternate's
\* playability from the previous position exceeds 1.2 times the current
\* position's; the previous position is the one emitted for the note before.
C26_MovedIffMorePlayable ==
    opc = "returned" =>
      \A i \in WithAlternate :
        /\ Moved(i) <=> AlternateWins(i)
        /\ ~Moved(i) => optimized[i] = opt_input[i]

\* C26, amended: the same for the notes that are not of provenance fused or
\* video_only with confidence above 0.8; those are never moved.
C26_UntrustedMovedIffMorePlayable ==
    opc = "returned" =>
      \A i \in WithAlternate :
        /\ Moved(i) <=> (~Trusted(opt_input[i]) /\ AlternateWins(i))
        /\ ~Moved(i) => optimized[i] = opt_input[i]

\* A note moved to its alternate, followed by a note whose alternate scores
\* 120 against 100 from the moved position, which is not more than 1.2 times
\* as much, and stays
C26_Witness ==
    /\ opc = "returned"
    /\ \E i, j \in WithAlternate :
         /\ j = i + 1
         /\ Moved(i)
         /\ ~Moved(j)
         /\ Playability(opt_input[j]["video_position"], Previous(j)) = 120
         /\ Playability(PositionOf(opt_input[j]), Previous(j)) = 100


----------------------------------------------------------------------------
(* fuse_predictions without context *)

\* Both contexts are empty and every observation has a confidence in [0,1]
NoContext ==
    /\ audio_context = EmptyDict
    /\ video_context = EmptyDict
    /\ \A a \in AudioIdx : /\ "confidence" \in DOMAIN audio_notes[a]
                           /\ audio_notes[a]["confidence"] \in 0..One
    /\ \A v \in VideoIdx : /\ "confidence" \in DOMAIN video_notes[v]
                           /\ video_notes[v]["confidence"] \in 0..One

----------------------------------------------------------------------------
(* optimize_positions on the output of fuse_predictions *)

\* The optimizer has been called on the fusion's output
Optimized == opc \in {"returned", "raised"}

\* The notes of the fusion's output whose position the optimizer changed:
\* in the list it was given, whose notes it changes in place, or in the list
\* it returned
Repositioned ==
    {i \in DOMAIN opt_input :
       \/ PositionOf(fused_notes[i].note) # PositionOf(opt_input[i])
       \/ opc = "returned" /\ PositionOf(optimized[i]) # PositionOf(opt_input[i])}

\* C28: on an output of fuse_predictions, optimize_positions changes the
\* string or fret of a note only if the note's provenance is
\* 'audio_weighted' and it is not the first of the list; notes of provenance
\* 'audio_priority' and 'position_corrected' keep their position.
C28_OnlyAudioWeightedMoves ==
    Optimized =>
      /\ Len(fused_notes) = Len(opt_input)
      /\ \A i \in Repositioned :
           /\ opt_input[i]["source"] = "audio_weighted"
           /\ "video_position" \in DOMAIN opt_input[i]
           /\ i > 1
      /\ \A i \in DOMAIN opt_input :
           opt_input[i]["source"] \in {"audio_priority", "position_corrected"}
             => i \notin Repositioned

\* The fusion gave a second note the provenance src, with the alternate
\* position under the key alt
SecondNote(src, alt) ==
    /\ opc = "returned"
    /\ Len(opt_input) = 2
    /\ opt_input[2]["source"] = src
    /\ alt \in DOMAIN opt_input[2]

\* An 'audio_weighted' note after another note was moved to its alternate
C28_Witness ==
    /\ SecondNote("audio_weighted", "video_position")
    /\ 2 \in Repositioned
    /\ PositionOf(optimized[2]) = opt_input[2]["video_position"]


----------------------------------------------------------------------------
(* The played flag on the matched-pair path *)

\* The video notes with the played flag of note v inverted
PlayedFlipped(v) ==
    [video_notes EXCEPT ![v] = Put(@, "played", ~Get(@, "played", FALSE))]

\* The time, string, fret, confidence and provenance of a note
Essentials(note) ==
    [k \in {"time", "string", "fret", "confidence", "source"} |->
       Get(note, k, None)]

\* The provenances under which the note takes the video's position
VideoPositioned == {"fused", "octave_corrected", "position_corrected",
                    "video_priority", "video_weighted"}

\* C29: inverting the played flag of a video note that is matched to an
\* audio note leaves the time, string, fret, confidence and provenance of
\* every note fuse_predictions emits as they were (and a call that raises
\* still raises); so the position of a matched video note with played false
\* is the position of the note emitted for its pair under every rule that
\* takes the video's position.
C29_PlayedFlagIgnoredWhenMatched ==
    pc # "ready" =>
      \A p \in PairIdx : \A float64 \in BOOLEAN :
        LET v == matched_pairs[p][2]
            a == matched_pairs[p][1]
            given == fuse_predictions(audio_notes, video_notes, audio_context,
                                      video_context, float64)
            flipped == fuse_predictions(audio_notes, PlayedFlipped(v),
                                        audio_context, video_context, float64)
        IN  /\ flipped.raised = given.raised
            /\ ~given.raised =>
                 /\ Len(flipped.notes) = Len(given.notes)
                 /\ \A i \in DOMAIN given.notes :
                      /\ Essentials(flipped.notes[i].note)
                           = Essentials(given.notes[i].note)
                      /\ flipped.notes[i].a = given.notes[i].a
                      /\ flipped.notes[i].v = given.notes[i].v
            /\ pc = "returned" =>
                 \A i \in NotesOfPair(a, v) :
                   ( /\ fused_notes[i].note.source \in VideoPositioned
                     /\ "string" \in DOMAIN video_notes[v]
                     /\ "fret" \in DOMAIN video_notes[v] )
                   => /\ fused_notes[i].note.string = video_notes[v].string
                      /\ fused_notes[i].note.fret = video_notes[v].fret

\* A returned note that has the position of a matched video note whose
\* played flag is false, the audio note being elsewhere on the neck
C29_Witness ==
    /\ pc = "returned"
    /\ \E p \in PairIdx :
         LET a == matched_pairs[p][1]
             v == matched_pairs[p][2]
         IN  /\ "played" \in DOMAIN video_notes[v]
             /\ ~video_notes[v]["played"]
             /\ Get(audio_notes[a], "fret", None) # video_notes[v].fret
             /\ \E i \in NotesOfPair(a, v) :
                  /\ fused_notes[i].note.string = video_notes[v].string
                  /\ fused_notes[i].note.fret = video_notes[v].fret


----------------------------------------------------------------------------
(* The resolver's notes in the fusion *)

\* The audio notes are the resolver's
AudioProcessed == mpc = "mapped" /\ pc \in {"ready", "returned", "raised"}

\* Audio note a is the first note of the run, resolved from empty memory, and
\* its detected frequency is 220 Hz
FirstIs220(a) == a = 1 /\ audio_notes[a]["frequency"] = -1200

\* The matched pairs of a 220 Hz first note with a video note on the open A
\* string
OpenAPairs ==
    {p \in PairIdx : /\ FirstIs220(matched_pairs[p][1])
                     /\ Get(video_notes[matched_pairs[p][2]], "string", None) = 1
                     /\ Get(video_notes[matched_pairs[p][2]], "fret", None) = 0}

\* C30: 220 Hz resolved from empty memory is given string 1, fret 0 and keeps
\* the frequency 220 in the audio note; matched with a video note at string
\* 1, fret 0 the pair is an exact agreement, emitted as 'fused' with
\* frequency 220 and without audio_frequency_raw or correction: the
\* octave_corrected rule does not fire.
C30_OctaveResolvedNoteFusesExactly ==
    AudioProcessed =>
      /\ audio_notes = mapped_notes
      /\ \A a \in AudioIdx :
           FirstIs220(a) => /\ audio_notes[a]["string"] = 1
                            /\ audio_notes[a]["fret"] = 0
                            /\ \E j \in DOMAIN frequencies : frequencies[j] = -1200
      /\ pc # "ready" =>
           /\ pc = "returned"
           /\ \A p \in OpenAPairs :
                LET a == matched_pairs[p][1]
                    v == matched_pairs[p][2]
                    c == compare_predictions(audio_notes[a], video_notes[v])
                IN  /\ c.string_match /\ c.fret_match
                    /\ Cardinality(NotesOfPair(a, v)) = 1
                    /\ \A i \in NotesOfPair(a, v) :
                         LET note == fused_notes[i].note
                         IN  /\ note.source = "fused"
                             /\ note.frequency = -1200
                             /\ note.string = 1 /\ note.fret = 0
                             /\ "audio_frequency_raw" \notin DOMAIN note
                             /\ "correction" \notin DOMAIN note

\* A 220 Hz first note fused with a video note on the open A string
C30_Witness ==
    /\ AudioProcessed
    /\ pc = "returned"
    /\ OpenAPairs # {}
    /\ \E i \in OutIdx : fused_notes[i].a = 1 /\ fused_notes[i].v # 0

====
